---- MODULE Spec2Model ----
(***************************************************************************)
(* Model of the x402 session subsystem of clawpay-mcp:                     *)
(*   - the session store   (src/src/session/manager.ts)                    *)
(*   - the session tools   (tools/session.ts, src/unnamed/part_001)        *)
(*   - the x402_pay router (src/src/tools/x402.ts)                         *)
(*                                                                         *)
(* Handlers are async functions on one event loop.  A handler runs         *)
(* atomically from one await to the next; each slot of `proc` is one       *)
(* in-flight handler invocation and `pc` is the await it is suspended at.  *)
(* Strings that the code inspects character by character (URLs, the        *)
(* SESSION_TTL_SECONDS value) are sequences of one-character strings.      *)
(* An optional value (undefined or a value) is a set with at most one      *)
(* element.                                                                *)
(***************************************************************************)
EXTENDS Integers, Sequences, FiniteSets, TLC

\* ---------------------------------------------------------------- bounds

\* Last second of the modelled clock.
MaxTime == 2
\* Number of session identifiers randomUUID() may hand out.
MaxSessions == 2
\* Uses one session may accumulate (caps callCount).
MaxUses == 1
\* Direct recordSessionCall calls one record may receive.
MaxCalls == 3

\* ------------------------------------------------------------- constants

DEFAULT_TTL_SECONDS == 3600
TTL_CAP_SECONDS == 2592000
\* The bounds the documentation states for a session lifetime.
TTL_MIN_DOC == 60
TTL_MAX_DOC == 2592000
PAYMENT_REQUIRED == 402

\* ------------------------------------------------------------ input sets

Procs == {"p1", "p2"}

V1 == <<"v", "1">>
V1D == <<"v", "1", "/", "d">>
V10 == <<"v", "1", "0">>
Endpoints == {V1, V1D}
Urls == {V1, V1D, V10}
Scopes == {"prefix", "exact"}

\* opts.ttlSeconds / input.ttl_seconds: undefined or a number of seconds.
TtlInputs == {{}, {1}}
\* process.env['SESSION_TTL_SECONDS']: undefined or a string.
EnvValues == {{}, {<<"2">>}}

\* '0x0000000000000000000000000000000000000000': the native token.
ZERO_ADDRESS == "0x0"
\* The TransactionLog the payment client hands to onPaymentComplete: each
\* endpoint's server quotes its own price, recipient and token.
PaymentLog(url) ==
  IF url = V1
  THEN [amount |-> 1, txHash |-> "0xa", recipient |-> "r1", token |-> {}]
  ELSE [amount |-> 12, txHash |-> "0xb", recipient |-> "r2", token |-> {"usdc"}]

\* handleX402SessionStart's payment variables before any payment:
\* paymentAmount = 0n, paymentTxHash = '', paymentRecipient = '',
\* paymentToken = the zero address.
NoLog == [amount |-> 0, txHash |-> "", recipient |-> "", token |-> ZERO_ADDRESS]

\* HTTP statuses a server may answer with.
Statuses == {200, 402, 500}

\* ------------------------------------------------------- string helpers

\* String.prototype.startsWith
StartsWith(s, prefix) ==
  /\ Len(prefix) <= Len(s)
  /\ SubSeq(s, 1, Len(prefix)) = prefix

\* String.prototype.endsWith, for a one-character suffix
EndsWithChar(s, c) == Len(s) > 0 /\ s[Len(s)] = c

Digits == {"0", "1", "2", "3", "4", "5", "6", "7", "8", "9"}

DigitValue(c) ==
  CASE c = "0" -> 0 [] c = "1" -> 1 [] c = "2" -> 2 [] c = "3" -> 3
    [] c = "4" -> 4 [] c = "5" -> 5 [] c = "6" -> 6 [] c = "7" -> 7
    [] c = "8" -> 8 [] c = "9" -> 9

\* Length of the longest prefix of s made of digits.
RECURSIVE DigitPrefixLen(_)
DigitPrefixLen(s) ==
  IF s = <<>> \/ Head(s) \notin Digits THEN 0 ELSE 1 + DigitPrefixLen(Tail(s))

RECURSIVE DigitsToNat(_, _)
DigitsToNat(s, acc) ==
  IF s = <<>> THEN acc ELSE DigitsToNat(Tail(s), 10 * acc + DigitValue(Head(s)))

\* parseInt(raw, 10): an optional sign, then the longest run of digits;
\* NaN (the empty set) when there is no digit.
ParseInt(raw) ==
  LET neg  == raw # <<>> /\ Head(raw) = "-"
      body == IF raw # <<>> /\ Head(raw) \in {"-", "+"} THEN Tail(raw) ELSE raw
      n    == DigitPrefixLen(body)
      v    == DigitsToNat(SubSeq(body, 1, n), 0)
  IN  IF n = 0 THEN {} ELSE {IF neg THEN 0 - v ELSE v}

Min(a, b) == IF a <= b THEN a ELSE b

\* The one element of a non-empty optional.
The(opt) == CHOOSE x \in opt : TRUE

\* BigInt.prototype.toString(): the decimal digits of a non-negative amount.
DigitChar(d) ==
  CASE d = 0 -> "0" [] d = 1 -> "1" [] d = 2 -> "2" [] d = 3 -> "3" [] d = 4 -> "4"
    [] d = 5 -> "5" [] d = 6 -> "6" [] d = 7 -> "7" [] d = 8 -> "8" [] d = 9 -> "9"

RECURSIVE ToDecimal(_)
ToDecimal(n) ==
  IF n < 10 THEN <<DigitChar(n)>> ELSE Append(ToDecimal(n \div 10), DigitChar(n % 10))

\* ----------------------------------------------------------------- state

VARIABLES
  now,      \* Math.floor(Date.now() / 1000)
  env,      \* process.env['SESSION_TTL_SECONDS']
  store,    \* the Map's keys in insertion order (manager.ts `store`)
  heap,     \* the SessionRecord objects by sessionId; an object outlives its
            \* deletion from the Map while a handler still holds a reference
  nextId,   \* the next identifier randomUUID() returns
  proc,     \* the handler invocation of each slot
  issued,   \* history: the expiresAt each record createSession returned was
            \* created with, by sessionId
  ended     \* history: the ids for which endSession returned true

vars == <<now, env, store, heap, nextId, proc, issued, ended>>

SessionIds == 1..MaxSessions

\* ------------------------------------------------ session/manager.ts

Range(seq) == {seq[i] : i \in 1..Len(seq)}

InStore(sid) == sid \in Range(store)

\* parseTtlFromEnv()
ParseTtlFromEnv(raw) ==
  IF raw = {} \/ The(raw) = <<>> THEN DEFAULT_TTL_SECONDS
  ELSE LET parsed == ParseInt(The(raw))
       IN  IF parsed = {} \/ The(parsed) <= 0 THEN DEFAULT_TTL_SECONDS
           ELSE Min(The(parsed), TTL_CAP_SECONDS)

\* createSession: `opts.ttlSeconds ?? parseTtlFromEnv()`
EffectiveTtl(ttlOpt, raw) ==
  IF ttlOpt # {} THEN The(ttlOpt) ELSE ParseTtlFromEnv(raw)

\* ----------------------------------------------------------- token codec

\* A JavaScript string the codec builds or takes apart is a sequence of
\* symbols: [c |-> ch] is the character ch, [b64 |-> m] is the run of
\* base64url characters that encodes the JSON member m, and a JSON text is
\* the sequence of its members [key |-> k, value |-> v].
Chars(s) == [i \in 1..Len(s) |-> [c |-> s[i]]]
Dot == [c |-> "."]

\* config.walletAddress
WALLET_ADDRESS == "0xw"
\* What walletClient.signMessage returns: a 0x-prefixed hexadecimal string.
HexSignature == Chars(<<"0", "x", "5">>)
\* What an injected signMessage callback may return.
Signatures == {HexSignature, Chars(<<"a", ".", "b">>), Chars(<<".", "a">>)}
\* input.label / opts.label: undefined or a string.
Labels == {{}, {"L"}}

\* The keys a payload or record may have, in the order Array.prototype.sort
\* puts them.
SortedKeys ==
  << "createdAt", "endpoint", "expiresAt", "label", "paymentAmount",
     "paymentTxHash", "scope", "sessionId", "version", "walletAddress" >>
\* The keys whose values are numbers.
NumberKeys == {"createdAt", "expiresAt"}

\* createSession: the SessionTokenPayload.
TokenPayload(sid, walletAddress, endpoint, scope, createdAt, expiresAt, log) ==
  [ version       |-> "clawpay/1.1",
    sessionId     |-> sid,
    walletAddress |-> walletAddress,
    endpoint      |-> endpoint,
    scope         |-> scope,
    createdAt     |-> createdAt,
    expiresAt     |-> expiresAt,
    paymentTxHash |-> log.txHash,
    paymentAmount |-> ToDecimal(log.amount) ]

\* JSON.stringify of one value: a number becomes its decimal digits, a string
\* is quoted.
JsonValue(k, v) == IF k \in NumberKeys THEN [num |-> ToDecimal(v)] ELSE [str |-> v]

\* canonicalise that keeps the keys in the reverse of the sorted order.
CanonicaliseReversed(obj) ==
  LET keys == SelectSeq(SortedKeys, LAMBDA k : k \in DOMAIN obj)
      n    == Len(keys)
  IN  [i \in 1..n |->
         [key |-> keys[n + 1 - i], value |-> JsonValue(keys[n + 1 - i], obj[keys[n + 1 - i]])]]

\* canonicalise(obj): Object.keys(obj).sort(), then JSON.stringify.
Canonicalise(obj) ==
  LET keys == SelectSeq(SortedKeys, LAMBDA k : k \in DOMAIN obj)
  IN  [i \in 1..Len(keys) |->
         [key |-> keys[i], value |-> JsonValue(keys[i], obj[keys[i]])]]

\* Buffer.from(text).toString('base64url')
Base64UrlEncode(text) == [i \in 1..Len(text) |-> [b64 |-> text[i]]]

\* Buffer.from(s, 'base64url'): a character outside the alphabet ('.') is
\* skipped; alphabet characters that were never produced by the encoder
\* decode to bytes of no JSON member.
RECURSIVE Base64UrlDecode(_)
Base64UrlDecode(s) ==
  IF s = <<>> THEN <<>>
  ELSE LET h == Head(s)
       IN  IF DOMAIN h = {"b64"} THEN <<h.b64>> \o Base64UrlDecode(Tail(s))
           ELSE IF h = Dot THEN Base64UrlDecode(Tail(s))
           ELSE <<[junk |-> h.c]>> \o Base64UrlDecode(Tail(s))

\* JSON.parse of one value: digits back to a number, a quoted string back
\* to the string.
ParseValue(v) == IF DOMAIN v = {"num"} THEN DigitsToNat(v.num, 0) ELSE v.str

\* JSON.parse(text): the object, or nothing when it throws SyntaxError.
JsonParse(text) ==
  IF text = <<>> \/ \E i \in 1..Len(text) : DOMAIN text[i] # {"key", "value"}
  THEN {}
  ELSE {[k \in {text[i].key : i \in 1..Len(text)} |->
          LET last == CHOOSE i \in 1..Len(text) :
                        /\ text[i].key = k
                        /\ \A j \in (i + 1)..Len(text) : text[j].key # k
          IN  ParseValue(text[last].value)]}

\* String.prototype.indexOf / lastIndexOf for one character, counted from 1;
\* 0 when the character does not occur.
IndexOf(s, ch) ==
  IF \E i \in 1..Len(s) : s[i] = ch
  THEN CHOOSE i \in 1..Len(s) : s[i] = ch /\ \A j \in 1..(i - 1) : s[j] # ch
  ELSE 0
LastIndexOf(s, ch) ==
  IF \E i \in 1..Len(s) : s[i] = ch
  THEN CHOOSE i \in 1..Len(s) : s[i] = ch /\ \A j \in (i + 1)..Len(s) : s[j] # ch
  ELSE 0

\* `${payloadB64}.${signature}`
SessionToken(payloadB64, signature) == payloadB64 \o <<Dot>> \o signature

\* decodeSessionToken(token): split at the last '.', decode and parse the
\* part before it; null (the empty set) when there is no '.' or the parse
\* throws.
DecodeSessionToken(token) ==
  LET dotIdx == LastIndexOf(token, Dot)
  IN  IF dotIdx = 0 THEN {}
      ELSE LET payloadB64 == SubSeq(token, 1, dotIdx - 1)
               signature  == SubSeq(token, dotIdx + 1, Len(token))
               parsed     == JsonParse(Base64UrlDecode(payloadB64))
           IN  IF parsed = {} THEN {}
               ELSE {[payload |-> The(parsed), signature |-> signature]}

\* ------------------------------------------------------ request headers

\* An object of header values by name; `{}` is the function of no name.
NoHeaders == <<>>
\* 'application/json, text/plain, */*'
ACCEPT_DEFAULT == "application/json, text/plain, */*"
JSON_CONTENT_TYPE == "application/json"
\* A token the caller made up.
ForgedToken == Chars(<<"f">>)

\* input.method, input.headers and input.body of a call that names none.
PlainRequest == [method |-> "GET", headers |-> NoHeaders, body |-> {}]
\* input.headers: nothing, a header of the caller's own, or one that bears
\* the name of a default or session header.
CallerHeaders ==
  { NoHeaders,
    "X-Custom-Header" :> "my-value",
    "Accept" :> "text/html",
    "X-Session-Token" :> ForgedToken,
    "Content-Type" :> "text/plain",
    "Content-Type" :> "" }
\* input.method, input.headers, input.body (undefined or '' is the empty set).
Requests ==
  {[method |-> m, headers |-> h, body |-> b] :
     m \in {"GET", "POST"}, h \in CallerHeaders, b \in {{}, {"b"}}}

\* `{...lower, ...higher}` with the operands exchanged.
MergeHeadersLowerWins(lower, higher) ==
  [k \in (DOMAIN lower) \cup (DOMAIN higher) |->
     IF k \in DOMAIN lower THEN lower[k] ELSE higher[k]]

\* `{...lower, ...higher}`: object spread, the later operand wins.
MergeHeaders(lower, higher) ==
  [k \in (DOMAIN lower) \cup (DOMAIN higher) |->
     IF k \in DOMAIN higher THEN higher[k] ELSE lower[k]]

\* buildSessionHeaders without the PAYMENT-SESSION header.
BuildSessionHeadersNoId(session) ==
  ("X-Session-Token" :> session.sessionToken)
    @@ ("X-Session-Wallet" :> session.walletAddress)

\* buildSessionHeaders(session)
BuildSessionHeaders(session) ==
  ("X-Session-Token" :> session.sessionToken)
    @@ ("X-Session-Wallet" :> session.walletAddress)
    @@ ("PAYMENT-SESSION" :> session.sessionId)

\* `input.body && ['POST', 'PUT', 'PATCH'].includes(method)` and
\* `!mergedHeaders['Content-Type']`: the header is missing or empty.
NeedsContentType(merged, req) ==
  /\ req.body # {}
  /\ req.method \in {"POST", "PUT", "PATCH"}
  /\ "Content-Type" \in DOMAIN merged => merged["Content-Type"] = ""

\* mergedHeaders of handleX402SessionFetch and of handleX402Pay's session
\* path: Accept, the session headers, the caller's headers, then the
\* Content-Type of a request with a body.
RequestHeaders(session, req) ==
  LET merged == MergeHeaders(
                  MergeHeaders("Accept" :> ACCEPT_DEFAULT, BuildSessionHeaders(session)),
                  req.headers)
  IN  IF NeedsContentType(merged, req)
      THEN MergeHeaders(merged, "Content-Type" :> JSON_CONTENT_TYPE)
      ELSE merged

\* NewRecord with the recipient written where the transaction hash belongs.
NewRecordSwapped(sid, endpoint, scope, createdAt, expiresAt, log, message, signature, label) ==
  [ sessionId        |-> sid,
    endpoint         |-> endpoint,
    scope            |-> scope,
    walletAddress    |-> WALLET_ADDRESS,
    createdAt        |-> createdAt,
    expiresAt        |-> expiresAt,
    paymentTxHash    |-> log.recipient,
    paymentAmount    |-> ToDecimal(log.amount),
    paymentToken     |-> log.token,
    paymentRecipient |-> log.txHash,
    sessionToken     |-> SessionToken(Base64UrlEncode(message), signature),
    signature        |-> signature,
    label            |-> label,
    callCount        |-> 0,
    lastUsedAt       |-> createdAt ]

\* createSession: the record assembled once the signer has returned
\* `signature` for the canonical payload `message`.
NewRecord(sid, endpoint, scope, createdAt, expiresAt, log, message, signature, label) ==
  [ sessionId        |-> sid,
    endpoint         |-> endpoint,
    scope            |-> scope,
    walletAddress    |-> WALLET_ADDRESS,
    createdAt        |-> createdAt,
    expiresAt        |-> expiresAt,
    paymentTxHash    |-> log.txHash,
    paymentAmount    |-> ToDecimal(log.amount),
    paymentToken     |-> log.token,
    paymentRecipient |-> log.recipient,
    sessionToken     |-> SessionToken(Base64UrlEncode(message), signature),
    signature        |-> signature,
    label            |-> label,
    callCount        |-> 0,
    lastUsedAt       |-> createdAt ]

\* pruneExpired deleting every record, expired or not.
PruneAll(st, hp, t) == SelectSeq(st, LAMBDA id : FALSE)

\* pruneExpired with `expiresAt < now` for `expiresAt <= now`.
PruneExpiredStrict(st, hp, t) ==
  SelectSeq(st, LAMBDA id : ~(hp[id].expiresAt < t))

\* pruneExpired(): the Map's keys once every expired record is deleted.
PruneExpired(st, hp, t) ==
  SelectSeq(st, LAMBDA id : ~(hp[id].expiresAt <= t))

\* createSession that replaces the table by the new record instead of adding
\* to it.
StoreAfterCreateReplace(st, hp, sid, t) == PruneExpired(<<sid>>, hp, t)

\* createSession after `await opts.signMessage`: store.set, then pruneExpired().
StoreAfterCreate(st, hp, sid, t) == PruneExpired(Append(st, sid), hp, t)

\* lookupSession with `now > expiresAt` for `now >= expiresAt`.
LookupSessionLate(sid) ==
  IF ~InStore(sid) THEN [found |-> FALSE, expired |-> FALSE]
  ELSE [found |-> TRUE, expired |-> now > heap[sid].expiresAt]

\* lookupSession(sessionId)
LookupSession(sid) ==
  IF ~InStore(sid) THEN [found |-> FALSE, expired |-> FALSE]
  ELSE [found |-> TRUE, expired |-> now >= heap[sid].expiresAt]

\* lookupSession that deletes the record it finds expired.
AfterLookupEvicts(st, hp, sid, t) ==
  [ store |-> IF sid \in Range(st) /\ t >= hp[sid].expiresAt
              THEN SelectSeq(st, LAMBDA id : id # sid) ELSE st,
    heap  |-> hp ]

\* lookupSession(sessionId): the table and the records after the call
\* (store.get and a comparison: nothing is written).
AfterLookup(st, hp, sid, t) == [store |-> st, heap |-> hp]

\* recordSessionCall that also renews the session's lifetime.
RecordSessionCallRenews(hp, st, sid, t) ==
  IF sid \notin Range(st) THEN hp
  ELSE [hp EXCEPT ![sid].callCount = @ + 1, ![sid].lastUsedAt = t,
                  ![sid].expiresAt = t + DEFAULT_TTL_SECONDS]

\* recordSessionCall that counts the call but leaves lastUsedAt alone.
RecordSessionCallStale(hp, st, sid, t) ==
  IF sid \notin Range(st) THEN hp
  ELSE [hp EXCEPT ![sid].callCount = @ + 1]

\* recordSessionCall(sessionId): the heap after the call.
RecordSessionCall(hp, st, sid, t) ==
  IF sid \notin Range(st) THEN hp
  ELSE [hp EXCEPT ![sid].callCount = @ + 1, ![sid].lastUsedAt = t]

\* endSession that leaves expiresAt alone.
EndSessionNoop(hp, st, sid) == hp

\* endSession(sessionId): the heap after the call.
EndSession(hp, st, sid) ==
  IF sid \notin Range(st) THEN hp ELSE [hp EXCEPT ![sid].expiresAt = 0]

\* endSession(sessionId): its return value.
EndSessionReturns(st, sid) == sid \in Range(st)

\* The activity filter dropped: every stored record counts as active.
IsActiveAlways(hp, sid, t) == TRUE

\* The filter of listActiveSessions and findSessionForUrl.
IsActive(hp, sid, t) == hp[sid].expiresAt > t

\* listActiveSessions(): the ids returned, in order (after its pruneExpired()).
ListActiveSessions(st, hp, t) ==
  SelectSeq(PruneExpired(st, hp, t), LAMBDA id : IsActive(hp, id, t))

\* Array.prototype.find: the first element of `seq` among those `matching` the
\* predicate, as an optional.
FindFirst(seq, matching) ==
  LET hits == {i \in 1..Len(seq) : seq[i] \in matching}
  IN  IF hits = {} THEN {} ELSE {seq[CHOOSE i \in hits : \A j \in hits : i <= j]}

\* findSessionForUrl: the prefix test of the second find.
PrefixMatches(url, endpoint) == StartsWith(url, endpoint)

\* findSessionForUrl that tries the prefix match before the exact match.
FindSessionForUrlPrefixFirst(url) ==
  LET active == SelectSeq(store, LAMBDA id : IsActive(heap, id, now))
      exact  == FindFirst(active,
                  {id \in Range(active) :
                     heap[id].scope = "exact" /\ heap[id].endpoint = url})
      prefix == FindFirst(active,
                  {id \in Range(active) :
                     heap[id].scope = "prefix" /\ PrefixMatches(url, heap[id].endpoint)})
  IN  IF prefix # {} THEN prefix ELSE exact

\* findSessionForUrl(url), as an optional session id.
FindSessionForUrl(url) ==
  LET active == SelectSeq(store, LAMBDA id : IsActive(heap, id, now))
      exact  == FindFirst(active,
                  {id \in Range(active) :
                     heap[id].scope = "exact" /\ heap[id].endpoint = url})
      prefix == FindFirst(active,
                  {id \in Range(active) :
                     heap[id].scope = "prefix" /\ PrefixMatches(url, heap[id].endpoint)})
  IN  IF exact # {} THEN exact ELSE prefix

\* ------------------------------------------------ tools/session.ts helpers

\* isUrlCoveredBySession(url, session)
IsUrlCoveredBySession(url, endpoint, scope) ==
  IF scope = "exact" THEN url = endpoint
  ELSE LET base == IF EndsWithChar(endpoint, "/") THEN endpoint
                   ELSE Append(endpoint, "/")
       IN  \/ url = endpoint
           \/ StartsWith(url, base)
           \/ StartsWith(url, Append(endpoint, "?"))

\* ---------------------------------------------------- handler invocations

\* What a handler returns: the message it renders, the session it names, the
\* call count it prints, (for the listing) the sessions it lists, and the
\* isError flag.
NoRes == [tag |-> "none", sid |-> {}, calls |-> 0, ttl |-> 0, list |-> <<>>,
          isError |-> FALSE]
Res(tag) == [NoRes EXCEPT !.tag = tag]
ResSid(tag, sid) == [NoRes EXCEPT !.tag = tag, !.sid = {sid}]
ResCalls(tag, sid, calls) == [NoRes EXCEPT !.tag = tag, !.sid = {sid}, !.calls = calls]
\* A result returned with `isError: true`.
Err(res) == [res EXCEPT !.isError = TRUE]
ResFetch(sid, calls, ttl) == [ResCalls("FetchOk", sid, calls) EXCEPT !.ttl = ttl]

\* Math.ceil(n / d) for a positive d.
CeilDiv(n, d) == IF n >= 0 THEN (n + d - 1) \div d ELSE 0 - ((0 - n) \div d)
\* Seconds in the minute the remaining lifetime is shown in.
SECONDS_PER_MINUTE == 60
\* handleX402SessionFetch: `Math.ceil(ttlRemaining / 60)`, the minutes shown.
FetchShownTtl(hp, sid, t) == CeilDiv(hp[sid].expiresAt - t, SECONDS_PER_MINUTE)

\* What the outside world last delivered to the handler: an HTTP response, a
\* timeout (AbortError), a transport error, a rejection of the before-payment
\* callback, or the signer's answer.
NoExt == [ev |-> "none", status |-> 0, sig |-> <<>>]
Response(status) == [NoExt EXCEPT !.ev = "response", !.status = status]
Failure(ev) == [NoExt EXCEPT !.ev = ev]
Signed(signature) == [NoExt EXCEPT !.ev = "signed", !.sig = signature]
Throws == {"timeout", "neterr"}

\* A slot with no handler in flight.
Idle ==
  [ pc |-> "ready", kind |-> "none", url |-> <<>>, scope |-> "prefix", ttl |-> {},
    maxPaymentWei |-> {}, sid |-> {}, made |-> FALSE, log |-> NoLog,
    newId |-> {}, createdAt |-> 0, expiresAt |-> 0, ext |-> NoExt, res |-> NoRes,
    label |-> {}, message |-> <<>>, req |-> PlainRequest, headers |-> <<>> ]

\* A handler that has returned `res`.
Finished(kind, made, ext, res) ==
  [Idle EXCEPT !.kind = kind, !.made = made, !.ext = ext, !.res = res]

\* A catch block that throws the error on instead of returning a result.
Rethrown(kind, made, ev) == Finished(kind, made, Failure(ev), NoRes)

\* The catch block of a handler: AbortError is reported as a timeout, any
\* other error by its message, both with isError.
Caught(kind, made, ev) ==
  Finished(kind, made, Failure(ev),
           Err(Res(IF ev = "timeout" THEN "Timeout" ELSE "Error")))

Ready(p) == proc[p].pc = "ready"

\* Handlers suspended on an HTTP request that carries session `sid`.
InFlightOn(sid) ==
  {q \in Procs : proc[q].pc \in {"fetch_http", "pay_session_http"} /\ proc[q].sid = {sid}}

\* The records still reachable: those in the Map and those a suspended handler
\* holds a reference to.  A record deleted from the Map that no handler refers
\* to can no longer be observed and is dropped from `heap`.
Reachable(hp, st, pr) ==
  LET held == {The(pr[q].sid) :
                 q \in {r \in Procs : pr[r].pc \in {"fetch_http", "pay_session_http"}}}
  IN  [i \in (DOMAIN hp) \cap (Range(st) \cup held) |-> hp[i]]

CanDispatchOn(sid) == heap[sid].callCount + Cardinality(InFlightOn(sid)) < MaxUses

StartsInFlight == {q \in Procs : proc[q].pc = "start_fetch"}

\* onPaymentComplete(log): the payment variables it assigns;
\* `log.token ?? '0x0000000000000000000000000000000000000000'`.
OnPaymentComplete(log) ==
  [ amount    |-> log.amount,
    txHash    |-> log.txHash,
    recipient |-> log.recipient,
    token     |-> IF log.token = {} THEN ZERO_ADDRESS ELSE The(log.token) ]

\* A max_payment_eth that parseFloat turns into NaN or into a number <= 0,
\* written as a cap below zero.
InvalidCap == {0 - 1}
\* `if (isNaN(cap) || cap <= 0) throw new Error('Invalid max_payment_eth')`
CapIsInvalid(cap) == cap # {} /\ The(cap) < 0

\* onBeforePayment: `if (maxPaymentWei && amount > maxPaymentWei) throw`.
\* The cap is tested for truthiness: undefined and 0n both disable the check.
BeforePaymentRejects(maxPaymentWei, amount) ==
  /\ maxPaymentWei # {}
  /\ The(maxPaymentWei) # 0
  /\ amount > The(maxPaymentWei)

\* ----------------------------------------------------------------- Init

Init ==
  /\ now = 1
  /\ env \in EnvValues
  /\ store = <<>>
  /\ heap = <<>>
  /\ nextId = 1
  /\ proc = [p \in Procs |-> Idle]
  /\ issued = <<>>
  /\ ended = {}

\* One second passes.
Tick ==
  /\ now < MaxTime
  /\ now' = now + 1
  /\ UNCHANGED <<env, store, heap, nextId, proc, issued, ended>>

\* ------------------------------------------------ x402_session_start

\* handleX402SessionStart up to `await x402Client.fetch(...)`.
StartCall(p, endpoint, scope, ttl, cap, label) ==
  /\ Ready(p)
  /\ nextId + Cardinality(StartsInFlight) <= MaxSessions
  /\ proc' = [proc EXCEPT ![p] =
       IF CapIsInvalid(cap) THEN Caught("start", FALSE, "invalid")
       ELSE [Idle EXCEPT !.pc = "start_fetch", !.kind = "start", !.url = endpoint,
                         !.scope = scope, !.ttl = ttl, !.maxPaymentWei = cap,
                         !.label = label]]
  /\ UNCHANGED <<now, env, store, heap, nextId, issued, ended>>

\* handleX402SessionStart without its `if (!paymentMade) return`.
AlwaysCreatesSession(paymentMade) == TRUE

\* `if (!paymentMade) return ...`: a session is created only after a payment.
StartCreatesSession(paymentMade) == paymentMade

\* createSession up to `await opts.signMessage(canonicalPayload)`: id,
\* timestamps and the canonical payload handed to the signer.
CreateSessionPrefix(slot, made, log) ==
  LET paid      == IF made THEN OnPaymentComplete(log) ELSE NoLog
      expiresAt == now + EffectiveTtl(slot.ttl, env)
  IN  [slot EXCEPT !.pc = "start_sign", !.made = made, !.log = paid,
                   !.ext = Response(200), !.newId = {nextId}, !.createdAt = now,
                   !.expiresAt = expiresAt,
                   !.message = Canonicalise(TokenPayload(nextId, WALLET_ADDRESS,
                                 slot.url, slot.scope, now, expiresAt, paid))]

\* x402Client.fetch and response.text() return; `made` tells whether
\* onPaymentComplete(log) fired on the way.
StartFetchReturns(p, made, log) ==
  /\ proc[p].pc = "start_fetch"
  /\ made => ~BeforePaymentRejects(proc[p].maxPaymentWei, log.amount)
  /\ IF StartCreatesSession(made)
     THEN /\ proc' = [proc EXCEPT ![p] = CreateSessionPrefix(proc[p], made, log)]
          /\ nextId' = nextId + 1
     ELSE /\ proc' = [proc EXCEPT ![p] =
               Finished("start", made, Response(200), Res("NoSessionNeeded"))]
          /\ UNCHANGED nextId
  /\ UNCHANGED <<now, env, store, heap, issued, ended>>

\* onBeforePayment throws: the quoted amount exceeds the cap.
StartCapRejected(p, log) ==
  /\ proc[p].pc = "start_fetch"
  /\ BeforePaymentRejects(proc[p].maxPaymentWei, log.amount)
  /\ proc' = [proc EXCEPT ![p] = Caught("start", FALSE, "capReject")]
  /\ UNCHANGED <<now, env, store, heap, nextId, issued, ended>>

\* x402Client.fetch or response.text() throws, before any payment
\* (made = FALSE) or after onPaymentComplete fired (made = TRUE).
StartFetchThrows(p, made, log, ev) ==
  /\ proc[p].pc = "start_fetch"
  /\ made => ~BeforePaymentRejects(proc[p].maxPaymentWei, log.amount)
  /\ proc' = [proc EXCEPT ![p] = Caught("start", made, ev)]
  /\ UNCHANGED <<now, env, store, heap, nextId, issued, ended>>

\* The signer returns `signature`: createSession inserts the record and
\* prunes, and handleX402SessionStart reports the new session.
StartSigned(p, signature) ==
  /\ proc[p].pc = "start_sign"
  /\ LET sl  == proc[p]
         sid == The(sl.newId)
         rec == NewRecord(sid, sl.url, sl.scope, sl.createdAt, sl.expiresAt, sl.log,
                          sl.message, signature, sl.label)
         hp  == [i \in (DOMAIN heap) \cup {sid} |-> IF i = sid THEN rec ELSE heap[i]]
         st  == StoreAfterCreate(store, hp, sid, now)
         pr  == [proc EXCEPT ![p] =
                  Finished("start", sl.made, Signed(signature), ResSid("Established", sid))]
     IN  /\ store' = st
         /\ proc' = pr
         /\ heap' = Reachable(hp, st, pr)
         /\ issued' = [i \in (DOMAIN issued) \cup {sid} |->
                         IF i = sid THEN rec.expiresAt ELSE issued[i]]
  /\ UNCHANGED <<now, env, nextId, ended>>

\* createSession with pruneExpired() moved ahead of `await opts.signMessage`:
\* a rejected signature still sweeps the table.
StartSignRejectedPruned(p) ==
  /\ proc[p].pc = "start_sign"
  /\ LET pr == [proc EXCEPT ![p] = Caught("start", proc[p].made, "signReject")]
         st == PruneExpired(store, heap, now)
     IN  /\ proc' = pr
         /\ store' = st
         /\ heap' = Reachable(heap, st, pr)
  /\ UNCHANGED <<now, env, nextId, issued, ended>>

\* The signer rejects: createSession throws, the handler's catch reports it.
StartSignRejected(p) ==
  /\ proc[p].pc = "start_sign"
  /\ proc' = [proc EXCEPT ![p] = Caught("start", proc[p].made, "signReject")]
  /\ UNCHANGED <<now, env, store, heap, nextId, issued, ended>>

\* ------------------------------------------------ x402_session_fetch

\* handleX402SessionFetch with the scope check moved ahead of the expiry check.
FetchCallScopeFirst(p, sid, url, req) ==
  /\ Ready(p)
  /\ LET lookup == LookupSession(sid)
     IN  IF ~lookup.found
         THEN proc' = [proc EXCEPT ![p] =
                Finished("fetch", FALSE, NoExt, ResSid("NotFound", sid))]
         ELSE IF ~IsUrlCoveredBySession(url, heap[sid].endpoint, heap[sid].scope)
         THEN proc' = [proc EXCEPT ![p] =
                Finished("fetch", FALSE, NoExt, ResSid("ScopeMismatch", sid))]
         ELSE IF lookup.expired
         THEN proc' = [proc EXCEPT ![p] =
                Finished("fetch", FALSE, NoExt, ResSid("Expired", sid))]
         ELSE /\ CanDispatchOn(sid)
              /\ proc' = [proc EXCEPT ![p] =
                   [Idle EXCEPT !.pc = "fetch_http", !.kind = "fetch",
                                !.url = url, !.sid = {sid}, !.req = req,
                                !.headers = RequestHeaders(heap[sid], req)]]
  /\ UNCHANGED <<now, env, store, heap, nextId, issued, ended>>

\* handleX402SessionFetch up to `await fetch(...)`: lookup, expiry and scope
\* checks, in that order, then the request with the merged headers.
FetchHandler(p, sid, url, req) ==
  /\ Ready(p)
  /\ LET lookup == LookupSession(sid)
     IN  IF ~lookup.found
         THEN proc' = [proc EXCEPT ![p] =
                Finished("fetch", FALSE, NoExt, Err(ResSid("NotFound", sid)))]
         ELSE IF lookup.expired
         THEN proc' = [proc EXCEPT ![p] =
                Finished("fetch", FALSE, NoExt, Err(ResSid("Expired", sid)))]
         ELSE IF ~IsUrlCoveredBySession(url, heap[sid].endpoint, heap[sid].scope)
         THEN proc' = [proc EXCEPT ![p] =
                Finished("fetch", FALSE, NoExt, Err(ResSid("ScopeMismatch", sid)))]
         ELSE proc' = [proc EXCEPT ![p] =
                [Idle EXCEPT !.pc = "fetch_http", !.kind = "fetch",
                             !.url = url, !.sid = {sid}, !.req = req,
                             !.headers = RequestHeaders(heap[sid], req)]]
  /\ UNCHANGED <<now, env, store, heap, nextId, issued, ended>>

\* handleX402SessionFetch, called while the session has uses left within the
\* bound MaxUses.
FetchCall(p, sid, url, req) ==
  /\ FetchHandler(p, sid, url, req)
  /\ proc'[p].pc = "fetch_http" => CanDispatchOn(sid)

\* handleX402SessionFetch that leaves out recordSessionCall.
FetchSkipsRecording(status) == FALSE

\* handleX402SessionFetch: recordSessionCall runs before the status is looked at.
FetchRecordsUse(status) == TRUE

\* handleX402SessionFetch that answers a 402 by going on to the payment
\* client, the way handleX402Pay does.
FetchResponseRepays(p, status) ==
  /\ proc[p].pc = "fetch_http"
  /\ LET sid == The(proc[p].sid)
         hp  == RecordSessionCall(heap, store, sid, now)
         pr  == [proc EXCEPT ![p] =
                  IF status = PAYMENT_REQUIRED
                  THEN [Idle EXCEPT !.pc = "pay_fetch", !.kind = "fetch",
                                    !.url = proc[p].url, !.ext = Response(status)]
                  ELSE Finished("fetch", FALSE, Response(status),
                         ResCalls("FetchOk", sid, hp[sid].callCount))]
     IN  /\ proc' = pr
         /\ heap' = Reachable(hp, store, pr)
  /\ UNCHANGED <<now, env, store, nextId, issued, ended>>

\* fetch and response.text() return with `status`.
FetchResponse(p, status) ==
  /\ proc[p].pc = "fetch_http"
  /\ LET sid == The(proc[p].sid)
         hp  == IF FetchRecordsUse(status)
                THEN RecordSessionCall(heap, store, sid, now) ELSE heap
         pr  == [proc EXCEPT ![p] =
                  Finished("fetch", FALSE, Response(status),
                    IF status = PAYMENT_REQUIRED THEN Err(ResSid("ServerRejected", sid))
                    ELSE ResFetch(sid, hp[sid].callCount, FetchShownTtl(hp, sid, now)))]
     IN  /\ proc' = pr
         /\ heap' = Reachable(hp, store, pr)
  /\ UNCHANGED <<now, env, store, nextId, issued, ended>>

\* handleX402SessionFetch with recordSessionCall moved ahead of `await fetch`.
FetchThrowsRecorded(p, ev) ==
  /\ proc[p].pc = "fetch_http"
  /\ LET pr == [proc EXCEPT ![p] = Caught("fetch", FALSE, ev)]
         hp == RecordSessionCall(heap, store, The(proc[p].sid), now)
     IN  /\ proc' = pr
         /\ heap' = Reachable(hp, store, pr)
  /\ UNCHANGED <<now, env, store, nextId, issued, ended>>

\* fetch or response.text() throws (timeout or transport error).
FetchThrows(p, ev) ==
  /\ proc[p].pc = "fetch_http"
  /\ LET pr == [proc EXCEPT ![p] = Caught("fetch", FALSE, ev)]
     IN  /\ proc' = pr
         /\ heap' = Reachable(heap, store, pr)
  /\ UNCHANGED <<now, env, store, nextId, issued, ended>>

\* ------------------------------------------------ x402_pay (the router)

\* handleX402Pay's payment path: `headers`, built from Accept and the
\* caller's headers, then the Content-Type of a request with a body.
PaymentHeaders(req) ==
  LET merged == MergeHeaders("Accept" :> ACCEPT_DEFAULT, req.headers)
  IN  IF NeedsContentType(merged, req)
      THEN MergeHeaders(merged, "Content-Type" :> JSON_CONTENT_TYPE)
      ELSE merged

\* handleX402Pay on the payment path: the cap is parsed, and the handler is
\* suspended at `await x402Client.fetch`; the request carries no session
\* header.
PaymentPath(url, cap, req) ==
  IF CapIsInvalid(cap) THEN Caught("pay", FALSE, "invalid")
  ELSE [Idle EXCEPT !.pc = "pay_fetch", !.kind = "pay", !.url = url,
                    !.maxPaymentWei = cap, !.req = req,
                    !.headers = PaymentHeaders(req)]

\* handleX402Pay that looks for a session whatever skip_session_check says.
SessionMatchIgnoresSkip(skip, url) == FindSessionForUrl(url)

\* `if (!input.skip_session_check) { const activeSession =
\* findSessionForUrl(input.url); ... }`: the session the call goes out under.
SessionMatch(skip, url) == IF skip THEN {} ELSE FindSessionForUrl(url)

\* handleX402Pay up to its first await: the session path when
\* findSessionForUrl finds a session and skip_session_check is false.
PayCall(p, url, skip, cap, req) ==
  /\ Ready(p)
  /\ LET match == SessionMatch(skip, url)
     IN  IF match # {}
         THEN /\ CanDispatchOn(The(match))
              /\ proc' = [proc EXCEPT ![p] =
                   [Idle EXCEPT !.pc = "pay_session_http", !.kind = "pay", !.url = url,
                                !.maxPaymentWei = cap, !.sid = match, !.req = req,
                                !.headers = RequestHeaders(heap[The(match)], req)]]
         ELSE proc' = [proc EXCEPT ![p] = PaymentPath(url, cap, req)]
  /\ UNCHANGED <<now, env, store, heap, nextId, issued, ended>>

\* handleX402Pay with recordSessionCall dropped from the session path.
NeverRecordsUse(status) == FALSE

\* handleX402Pay with recordSessionCall moved ahead of the status check.
AlwaysRecordsUse(status) == TRUE

\* handleX402Pay: `if (response.status !== 402)` guards recordSessionCall.
PayRecordsUse(status) == status # PAYMENT_REQUIRED

\* The session request returns with `status`: a use is recorded and the
\* response returned, or (402) the handler falls through to the payment path.
PaySessionResponse(p, status) ==
  /\ proc[p].pc = "pay_session_http"
  /\ LET sl  == proc[p]
         sid == The(sl.sid)
         hp  == IF PayRecordsUse(status)
                THEN RecordSessionCall(heap, store, sid, now) ELSE heap
         pr  == [proc EXCEPT ![p] =
                  IF status # PAYMENT_REQUIRED
                  THEN Finished("pay", FALSE, Response(status),
                         ResCalls("SessionUsed", sid, hp[sid].callCount))
                  ELSE IF CapIsInvalid(sl.maxPaymentWei)
                  THEN PaymentPath(sl.url, sl.maxPaymentWei, sl.req)
                  ELSE [PaymentPath(sl.url, sl.maxPaymentWei, sl.req) EXCEPT
                          !.ext = Response(status)]]
     IN  /\ proc' = pr
         /\ heap' = Reachable(hp, store, pr)
  /\ UNCHANGED <<now, env, store, nextId, issued, ended>>

\* The session request throws (timeout or transport error).
PaySessionThrows(p, ev) ==
  /\ proc[p].pc = "pay_session_http"
  /\ LET pr == [proc EXCEPT ![p] = Caught("pay", FALSE, ev)]
     IN  /\ proc' = pr
         /\ heap' = Reachable(heap, store, pr)
  /\ UNCHANGED <<now, env, store, nextId, issued, ended>>

\* x402Client.fetch and response.text() return on the payment path.
PayFetchReturns(p, made, log) ==
  /\ proc[p].pc = "pay_fetch"
  /\ made => ~BeforePaymentRejects(proc[p].maxPaymentWei, log.amount)
  /\ proc' = [proc EXCEPT ![p] =
       Finished("pay", made, Response(200), Res(IF made THEN "Paid" ELSE "NoPayment"))]
  /\ UNCHANGED <<now, env, store, heap, nextId, issued, ended>>

\* onBeforePayment throws on the payment path.
PayCapRejected(p, log) ==
  /\ proc[p].pc = "pay_fetch"
  /\ BeforePaymentRejects(proc[p].maxPaymentWei, log.amount)
  /\ proc' = [proc EXCEPT ![p] = Caught("pay", FALSE, "capReject")]
  /\ UNCHANGED <<now, env, store, heap, nextId, issued, ended>>

\* x402Client.fetch or response.text() throws on the payment path.
PayFetchThrows(p, made, log, ev) ==
  /\ proc[p].pc = "pay_fetch"
  /\ made => ~BeforePaymentRejects(proc[p].maxPaymentWei, log.amount)
  /\ proc' = [proc EXCEPT ![p] = Caught("pay", made, ev)]
  /\ UNCHANGED <<now, env, store, heap, nextId, issued, ended>>

\* ------------------------------------------------ x402_session_status
\* handleX402SessionStatus and handleX402SessionEnd never suspend: what they
\* return is a function of the state they are called in (StatusResult,
\* ListResult, EndResult), and the actions below are their effect on the store.

\* handleX402SessionStatus with a session_id: what it reports.
StatusResult(sid) ==
  LET lookup == LookupSession(sid)
  IN  IF ~lookup.found THEN Err(ResSid("NotFound", sid))
      ELSE ResCalls(IF lookup.expired THEN "StatusExpired" ELSE "StatusActive",
                    sid, heap[sid].callCount)

\* handleX402SessionStatus with a session_id: a pure read.
StatusById(sid) ==
  /\ StatusResult(sid).tag \in {"NotFound", "StatusExpired", "StatusActive"}
  /\ UNCHANGED vars

\* handleX402SessionStatus without a session_id: what it lists.
ListResult == ListActiveSessions(store, heap, now)

\* handleX402SessionStatus without a session_id: listActiveSessions() prunes.
StatusList ==
  /\ LET st == PruneExpired(store, heap, now)
     IN  /\ store' = st
         /\ heap' = Reachable(heap, st, proc)
  /\ UNCHANGED <<now, env, nextId, proc, issued, ended>>

\* ------------------------------------------------ x402_session_end

\* handleX402SessionEnd: what it reports.
EndResult(sid) ==
  LET lookup == LookupSession(sid)
  IN  IF ~lookup.found THEN Err(ResSid("NotFound", sid))
      ELSE IF lookup.expired THEN ResSid("AlreadyExpired", sid)
      ELSE ResCalls("Closed", sid, heap[sid].callCount)

\* handleX402SessionEnd: endSession runs only on a found, unexpired session.
EndCall(sid) ==
  /\ IF EndResult(sid).tag = "Closed"
     THEN /\ heap' = EndSession(heap, store, sid)
          /\ ended' = IF EndSessionReturns(store, sid) THEN ended \cup {sid} ELSE ended
     ELSE UNCHANGED <<heap, ended>>
  /\ UNCHANGED <<now, env, store, nextId, proc, issued>>

\* ----------------------------------------------------------------- Spec

\* maxPaymentWei = BigInt(Math.round(parseFloat(max_payment_eth) * 1e18)) for a
\* max_payment_eth > 0, or undefined: a cap below half a wei rounds to 0n.
Caps == {{}, {0}, {1}}

\* The slots in which a handler that suspends (start, fetch, pay) may run.
Async == {"p1"}

\* What the payment client may do with a request to `url`: pay (made) or not.
Outcomes(url) == {<<TRUE, PaymentLog(url)>>, <<FALSE, NoLog>>}

Next ==
  \/ Tick
  \/ \E p \in Async, e \in Endpoints, sc \in Scopes, t \in TtlInputs, c \in Caps :
       StartCall(p, e, sc, t, c, {})
  \/ \E p \in Async : \E o \in Outcomes(proc[p].url) : StartFetchReturns(p, o[1], o[2])
  \/ \E p \in Async : StartCapRejected(p, PaymentLog(proc[p].url))
  \/ \E p \in Async : \E o \in Outcomes(proc[p].url), ev \in Throws :
       StartFetchThrows(p, o[1], o[2], ev)
  \/ \E p \in Async : StartSigned(p, HexSignature)
  \/ \E p \in Async : StartSignRejected(p)
  \/ \E p \in Async, sid \in SessionIds, u \in Urls : FetchCall(p, sid, u, PlainRequest)
  \/ \E p \in Async, s \in Statuses : FetchResponse(p, s)
  \/ \E p \in Async, ev \in Throws : FetchThrows(p, ev)
  \/ \E p \in Async, u \in Urls, skip \in BOOLEAN, c \in Caps : PayCall(p, u, skip, c, PlainRequest)
  \/ \E p \in Async, s \in Statuses : PaySessionResponse(p, s)
  \/ \E p \in Async, ev \in Throws : PaySessionThrows(p, ev)
  \/ \E p \in Async : \E o \in Outcomes(proc[p].url) : PayFetchReturns(p, o[1], o[2])
  \/ \E p \in Async : PayCapRejected(p, PaymentLog(proc[p].url))
  \/ \E p \in Async : \E o \in Outcomes(proc[p].url), ev \in Throws :
       PayFetchThrows(p, o[1], o[2], ev)
  \/ \E sid \in SessionIds : StatusById(sid)
  \/ StatusList
  \/ \E sid \in SessionIds : EndCall(sid)

Spec == Init /\ [][Next]_vars

\* ------------------------------------------------------------ properties

\* A handler of slot p left the await `pc` in this step.
Leaves(p, pc) == proc[p].pc = pc /\ proc'[p] # proc[p]

\* The record `sid` has the same callCount and lastUsedAt after the step.
UseUnchanged(sid) ==
  sid \in DOMAIN heap' =>
    /\ heap'[sid].callCount = heap[sid].callCount
    /\ heap'[sid].lastUsedAt = heap[sid].lastUsedAt

\* C1: when the server answers x402_session_fetch with 402, the call reports
\* "session not recognised" and the session's callCount and lastUsedAt are
\* left unchanged: a use is recorded only for a status other than 402.
C1_FetchRejectedRecordsNoUse ==
  [][\A p \in Procs :
       (Leaves(p, "fetch_http") /\ proc'[p].ext = Response(PAYMENT_REQUIRED)) =>
         /\ proc'[p].res.tag = "ServerRejected"
         /\ UseUnchanged(The(proc[p].sid))]_vars

\* clamp(ttl, 60, 2592000)
ClampTtl(ttl) ==
  IF ttl < TTL_MIN_DOC THEN TTL_MIN_DOC
  ELSE IF ttl > TTL_MAX_DOC THEN TTL_MAX_DOC ELSE ttl

\* The TTL a createSession call asks for: the caller's, else the
\* SESSION_TTL_SECONDS override, else 3600.
RequestedTtl(ttlOpt, raw) ==
  IF ttlOpt # {} THEN The(ttlOpt)
  ELSE IF raw # {} /\ ParseInt(The(raw)) # {} THEN The(ParseInt(The(raw)))
  ELSE DEFAULT_TTL_SECONDS

\* C2: every createSession call computes expiresAt = createdAt +
\* clamp(ttl, 60, 2592000), whatever TTL the caller or SESSION_TTL_SECONDS
\* supplies (3600 when none is given).
C2_ExpiresAtIsClampedTtl ==
  \A p \in Procs :
    proc[p].pc = "start_sign" =>
      proc[p].expiresAt = proc[p].createdAt + ClampTtl(RequestedTtl(proc[p].ttl, env))

\* C3: findSessionForUrl returns a prefix-scope session with endpoint E for
\* URL U only if U = E or U starts with E + "/".
C3_PrefixMatchIsPathBoundaryAware ==
  \A u \in Urls :
    LET m == FindSessionForUrl(u)
    IN  (m # {} /\ heap[The(m)].scope = "prefix") =>
          \/ u = heap[The(m)].endpoint
          \/ StartsWith(u, Append(heap[The(m)].endpoint, "/"))

\* C4 (as claimed): after End(id) has returned true, every later Lookup(id)
\* returns found with expired = true and every later ListActive() excludes
\* the record, whatever store operations ran in between.
C4_EndedStaysFoundAndExpired ==
  \A sid \in ended :
    /\ LookupSession(sid).found
    /\ LookupSession(sid).expired
    /\ sid \notin Range(ListResult)

\* C4 (amended): after End(id) has returned true, no later ListActive() or
\* FindByUrl returns the record, and every later Lookup(id) returns either
\* found with expired = true or, once a prune has deleted the record,
\* found = false.
C4_EndedNeverActive ==
  \A sid \in ended :
    /\ LookupSession(sid).found => LookupSession(sid).expired
    /\ LookupSession(sid).found <=> InStore(sid)
    /\ sid \notin Range(ListResult)
    /\ \A u \in Urls : sid \notin FindSessionForUrl(u)

\* C4 witness: one ended session is still found (expired), another has been
\* pruned and is no longer found.
C4_Witness ==
  \E a \in ended, b \in ended :
    /\ LookupSession(a).found /\ LookupSession(a).expired
    /\ ~LookupSession(b).found

\* C5 (as claimed): Status by id never reports 'not found' for a session a
\* Start once created.
C5_StatusNeverNotFound ==
  \A sid \in DOMAIN issued : StatusResult(sid).tag # "NotFound"

\* C5 (amended): Status by id of a session a Start once created shows it
\* active exactly while it is in the store, unexpired and not ended; shows it
\* Expired while the expired or ended record is still in the store; and
\* reports 'not found' only for a session that has expired or been ended (and
\* has since been pruned).
C5_StatusByIdOfIssued ==
  \A sid \in DOMAIN issued :
    LET inactive == now >= issued[sid] \/ sid \in ended
        tag      == StatusResult(sid).tag
    IN  /\ tag = "NotFound" <=> ~InStore(sid)
        /\ ~InStore(sid) => inactive
        /\ InStore(sid) => tag = (IF inactive THEN "StatusExpired" ELSE "StatusActive")
        /\ InStore(sid) => StatusResult(sid).calls = heap[sid].callCount

\* C5 witness: of two sessions that are expired or ended, one is still shown
\* as Expired and the other is reported 'not found'.
C5_Witness ==
  \E a \in DOMAIN issued, b \in DOMAIN issued :
    /\ StatusResult(a).tag = "StatusExpired"
    /\ StatusResult(b).tag = "NotFound"

\* C6 (as claimed): once End has succeeded on an id, every later End on it
\* reports 'already expired', and End reports 'not found' only for an id that
\* was never issued.
C6_EndIsIdempotent ==
  /\ \A sid \in ended : EndResult(sid).tag = "AlreadyExpired"
  /\ \A sid \in SessionIds : EndResult(sid).tag = "NotFound" => sid \notin DOMAIN issued

\* C6 (amended): End never succeeds twice on an id: it closes a session only
\* while the record is in the store, unexpired and not ended; a later End
\* reports 'already expired' while the record is still in the store and the
\* 'not found' error once it has been pruned; an id never issued is
\* 'not found'.
C6_EndClosesOnce ==
  \A sid \in SessionIds :
    LET tag == EndResult(sid).tag
    IN  /\ sid \notin DOMAIN issued => tag = "NotFound"
        /\ sid \in DOMAIN issued =>
             /\ tag = "Closed" <=>
                  (InStore(sid) /\ now < issued[sid] /\ sid \notin ended)
             /\ tag = "AlreadyExpired" <=>
                  (InStore(sid) /\ (now >= issued[sid] \/ sid \in ended))
             /\ tag = "NotFound" <=> ~InStore(sid)
             /\ ~InStore(sid) => (now >= issued[sid] \/ sid \in ended)

\* C6 witness: of two ended sessions, a further End reports 'already expired'
\* for one and 'not found' for the other.
C6_Witness ==
  \E a \in ended, b \in ended :
    /\ EndResult(a).tag = "AlreadyExpired"
    /\ EndResult(b).tag = "NotFound"

CarriesPayment(rec, log) ==
  /\ rec.paymentTxHash = log.txHash
  /\ rec.paymentAmount = ToDecimal(log.amount)
  /\ rec.paymentToken = (IF log.token = {} THEN ZERO_ADDRESS ELSE The(log.token))
  /\ rec.paymentRecipient = log.recipient

SessionAccepted(p) ==
  /\ Leaves(p, "pay_session_http")
  /\ proc'[p].ext.ev = "response"
  /\ proc'[p].ext.status # PAYMENT_REQUIRED

\* C9 (as claimed): when the router's session request is answered with a
\* status other than 402, the call records exactly one use on the matched
\* session, does not go on to the payment client and returns 'session used'.
C9_SessionAcceptedRecordsOneUse ==
  [][\A p \in Procs :
       SessionAccepted(p) =>
         /\ proc'[p].pc = "ready"
         /\ proc'[p].res.tag = "SessionUsed"
         /\ proc'[p].res.calls = heap[The(proc[p].sid)].callCount + 1]_vars

\* C9 (amended): when the router's session request is answered with a status
\* other than 402, the call does not go on to the payment client and returns
\* 'session used'; it records exactly one use on the matched session if the
\* record is still in the store, and none if the session was ended or expired
\* and pruned while the request was in flight.
C9_SessionAcceptedRecordsUseIfStored ==
  [][\A p \in Procs :
       SessionAccepted(p) =>
         LET sid == The(proc[p].sid)
         IN  /\ proc'[p].pc = "ready"
             /\ proc'[p].res.tag = "SessionUsed"
             /\ proc'[p].res.sid = {sid}
             /\ store' = store
             /\ IF InStore(sid)
                THEN /\ heap'[sid].callCount = heap[sid].callCount + 1
                     /\ heap'[sid].lastUsedAt = now
                     /\ proc'[p].res.calls = heap'[sid].callCount
                ELSE proc'[p].res.calls = heap[sid].callCount
             /\ \A other \in Range(store) \ {sid} : heap'[other] = heap[other]]_vars

\* C9 witness: the router has returned 'session used' with one call recorded
\* on a session that is in the store.
C9_Witness ==
  \E p \in Procs :
    /\ proc[p].kind = "pay"
    /\ proc[p].res.tag = "SessionUsed"
    /\ proc[p].res.calls = 1
    /\ The(proc[p].res.sid) \in Range(store)
    /\ heap[The(proc[p].res.sid)].callCount = 1

\* C10: when the router's session request is answered with 402, no use is
\* recorded on the matched session, the store is left as it was, and the call
\* continues on the payment path in the state a call with no matching session
\* starts that path in.
C10_RejectedSessionFallsThrough ==
  [][\A p \in Procs :
       (Leaves(p, "pay_session_http") /\ proc'[p].ext = Response(PAYMENT_REQUIRED)) =>
         /\ proc'[p] = [PaymentPath(proc[p].url, proc[p].maxPaymentWei, proc[p].req) EXCEPT
                          !.ext = Response(PAYMENT_REQUIRED)]
         /\ store' = store
         /\ UseUnchanged(The(proc[p].sid))
         /\ \A sid \in Range(store) : heap'[sid] = heap[sid]]_vars

\* C10 witness: the router is on the payment path after a 402 answer to its
\* session request, and the matched session has no use recorded.
C10_Witness ==
  \E p \in Procs :
    /\ proc[p].pc = "pay_fetch"
    /\ proc[p].ext = Response(PAYMENT_REQUIRED)
    /\ \E sid \in Range(store) :
         heap[sid].callCount = 0 /\ FindSessionForUrl(proc[p].url) = {sid}

\* The handler of slot p is suspended on a request of the payment client
\* (x402Client.fetch), which pays when the server asks for payment.
OnPaymentClient(p) == proc[p].pc \in {"start_fetch", "pay_fetch"}

\* C11: x402_session_fetch never invokes the payment client and never causes
\* a payment: whatever the server answers (402 included), the handler returns
\* straight from its one plain HTTP request with no payment made.
C11_FetchNeverPays ==
  [][\A p \in Procs :
       /\ (proc'[p].kind = "fetch" /\ proc'[p] # proc[p]) =>
            /\ ~OnPaymentClient(p)'
            /\ ~proc'[p].made
            /\ proc'[p].pc \in {"ready", "fetch_http"}
       /\ Leaves(p, "fetch_http") =>
            /\ proc'[p].kind = "fetch"
            /\ proc'[p].pc = "ready"
            /\ proc'[p].res.tag \in {"ServerRejected", "FetchOk", "Timeout", "Error"}
            /\ proc'[p].ext = Response(PAYMENT_REQUIRED) =>
                 proc'[p].res.tag = "ServerRejected"]_vars

\* C11 witness: a Fetch answered with 402 has returned 'session rejected',
\* with no payment made.
C11_Witness ==
  \E p \in Procs :
    /\ proc[p].kind = "fetch"
    /\ proc[p].pc = "ready"
    /\ proc[p].ext = Response(PAYMENT_REQUIRED)
    /\ proc[p].res.tag = "ServerRejected"
    /\ ~proc[p].made

\* A call of x402_session_fetch starts in slot p in this step.
FetchStarts(p) == Ready(p) /\ proc'[p].kind = "fetch" /\ proc'[p] # proc[p]

\* C12: x402_session_fetch checks that the session exists, then that it has
\* not expired, then that the URL is covered, and sends the HTTP request only
\* when all three hold; a call that fails with NotFound, Expired or
\* ScopeMismatch sends no request and leaves the store unchanged.
C12_FetchValidatesBeforeDispatch ==
  [][\A p \in Procs :
       FetchStarts(p) =>
         /\ store' = store /\ heap' = heap
         /\ IF proc'[p].pc = "fetch_http"
            THEN LET sid == The(proc'[p].sid)
                 IN  /\ InStore(sid)
                     /\ now < heap[sid].expiresAt
                     /\ IsUrlCoveredBySession(proc'[p].url, heap[sid].endpoint,
                                              heap[sid].scope)
            ELSE LET sid == The(proc'[p].res.sid)
                     tag == proc'[p].res.tag
                 IN  /\ proc'[p].pc = "ready"
                     /\ proc'[p].ext = NoExt
                     /\ tag \in {"NotFound", "Expired", "ScopeMismatch"}
                     /\ tag = "NotFound" <=> ~InStore(sid)
                     /\ tag = "Expired" <=>
                          (InStore(sid) /\ now >= heap[sid].expiresAt)
                     /\ tag = "ScopeMismatch" =>
                          \E u \in Urls :
                            ~IsUrlCoveredBySession(u, heap[sid].endpoint,
                                                   heap[sid].scope)]_vars

\* C12 witness: a Fetch on an unexpired session has failed with ScopeMismatch
\* without any request having been sent.
C12_Witness ==
  \E p \in Procs :
    /\ proc[p].kind = "fetch"
    /\ proc[p].res.tag = "ScopeMismatch"
    /\ proc[p].ext = NoExt
    /\ The(proc[p].res.sid) \in Range(store)
    /\ heap[The(proc[p].res.sid)].scope = "exact"
    /\ heap[The(proc[p].res.sid)].callCount = 0

\* The outbound HTTP call the handler of slot p was suspended on timed out or
\* failed at transport level in this step.
HttpCallFails(p) ==
  /\ \/ Leaves(p, "fetch_http")
     \/ Leaves(p, "pay_session_http")
     \/ Leaves(p, "start_fetch")
  /\ proc'[p].ext.ev \in Throws

\* C13: when the HTTP call of x402_session_fetch, of the router's session
\* path or of x402_session_start times out or fails at transport level, the
\* call returns an error and no session is touched: no record is created and
\* no record's callCount or lastUsedAt (or any other field) changes.
C13_FailedHttpCallMutatesNothing ==
  [][\A p \in Procs :
       HttpCallFails(p) =>
         /\ proc'[p].pc = "ready"
         /\ proc'[p].res.tag = (IF proc'[p].ext.ev = "timeout" THEN "Timeout" ELSE "Error")
         /\ store' = store
         /\ nextId' = nextId
         /\ issued' = issued
         /\ DOMAIN heap' \subseteq DOMAIN heap
         /\ \A sid \in DOMAIN heap' : heap'[sid] = heap[sid]
         /\ \A sid \in Range(store) : sid \in DOMAIN heap']_vars

\* C13 witness: a Fetch on a stored session has timed out and the session
\* still has no use recorded.
C13_Witness ==
  \E p \in Procs :
    /\ proc[p].kind = "fetch"
    /\ proc[p].res.tag = "Timeout"
    /\ proc[p].ext.ev = "timeout"
    /\ \E sid \in Range(store) :
         /\ heap[sid].callCount = 0
         /\ heap[sid].lastUsedAt = heap[sid].createdAt
         /\ now < heap[sid].expiresAt

\* The handler of slot p awaits the payment client with a cap below the
\* amount the server of its URL quotes.
QuoteExceedsCap(p) ==
  /\ OnPaymentClient(p)
  /\ proc[p].maxPaymentWei # {}
  /\ PaymentLog(proc[p].url).amount > The(proc[p].maxPaymentWei)

\* C14: when the amount the server quotes exceeds the caller's payment cap,
\* the call (x402_pay or x402_session_start) makes no payment: it ends in
\* failure, creates no session and leaves the store unchanged.
C14_QuoteOverCapNeverPaid ==
  [][\A p \in Procs :
       (QuoteExceedsCap(p) /\ proc'[p] # proc[p]) =>
         /\ ~proc'[p].made
         /\ proc'[p].pc = "ready"
         /\ proc'[p].res.tag \notin {"Established", "Paid"}
         /\ store' = store
         /\ heap' = heap
         /\ nextId' = nextId]_vars

\* The active exact-scope sessions in the store whose endpoint is `url`.
ActiveExactFor(url) ==
  {sid \in Range(store) :
     /\ now < heap[sid].expiresAt
     /\ heap[sid].scope = "exact"
     /\ heap[sid].endpoint = url}

\* The active prefix-scope sessions in the store whose endpoint is a string
\* prefix of `url`.
ActivePrefixFor(url) ==
  {sid \in Range(store) :
     /\ now < heap[sid].expiresAt
     /\ heap[sid].scope = "prefix"
     /\ StartsWith(url, heap[sid].endpoint)}

\* C15: when an active exact-scope session whose endpoint equals the URL and
\* an active prefix-scope session covering the URL are both in the store,
\* findSessionForUrl returns an exact-scope session for that URL, whichever of
\* the two was created first.
C15_ExactPreferredOverPrefix ==
  \A u \in Urls :
    ActiveExactFor(u) # {} =>
      /\ FindSessionForUrl(u) # {}
      /\ FindSessionForUrl(u) \subseteq ActiveExactFor(u)

\* C15 witness: a prefix-scope session was created before an exact-scope one,
\* both are active and match the URL, and the exact-scope one is returned.
C15_Witness ==
  \E u \in Urls :
    /\ Len(store) = 2
    /\ store[1] \in ActivePrefixFor(u)
    /\ store[2] \in ActiveExactFor(u)
    /\ FindSessionForUrl(u) = {store[2]}

\* C16: findSessionForUrl never returns a session that is inactive at the time
\* of the call: the session it returns is in the store, has not been ended and
\* has not reached its expiry time.
C16_FindByUrlReturnsOnlyActive ==
  \A u \in Urls :
    \A sid \in FindSessionForUrl(u) :
      /\ InStore(sid)
      /\ now < heap[sid].expiresAt
      /\ sid \in DOMAIN issued
      /\ now < issued[sid]
      /\ sid \notin ended

\* C16 witness: the store holds a session that expired by TTL and a session
\* that was ended, neither pruned yet, and findSessionForUrl returns nothing
\* for their endpoints.
C16_Witness ==
  \E a \in Range(store), b \in Range(store) :
    /\ a \notin ended /\ now >= heap[a].expiresAt
    /\ b \in ended
    /\ FindSessionForUrl(heap[a].endpoint) = {}
    /\ FindSessionForUrl(heap[b].endpoint) = {}

\* ------------------------------------------- concurrent x402_session_start
\* Two x402_session_start calls in flight at once, each for its own endpoint,
\* interleaved at their awaits (the payment request and the signer), with the
\* synchronous tools running in between.

\* The endpoint each of the two concurrent calls is for.
EndpointOf(p) == IF p = "p1" THEN V1 ELSE V1D

NextConc ==
  \/ Tick
  \/ \E p \in Procs, sc \in Scopes, t \in TtlInputs : StartCall(p, EndpointOf(p), sc, t, {}, {})
  \/ \E p \in Procs : \E o \in Outcomes(proc[p].url) : StartFetchReturns(p, o[1], o[2])
  \/ \E p \in Procs : \E o \in Outcomes(proc[p].url), ev \in Throws :
       StartFetchThrows(p, o[1], o[2], ev)
  \/ \E p \in Procs : StartSigned(p, HexSignature)
  \/ \E p \in Procs : StartSignRejected(p)
  \/ StatusList
  \/ \E sid \in SessionIds : EndCall(sid)

SpecConc == Init /\ [][NextConc]_vars

\* The record is the one the createSession call suspended in `slot` assembles:
\* its own id, endpoint, scope, timestamps and payment, with no use recorded.
IsRecordOf(rec, slot) ==
  /\ rec.sessionId = The(slot.newId)
  /\ rec.endpoint = slot.url
  /\ rec.scope = slot.scope
  /\ rec.createdAt = slot.createdAt
  /\ rec.expiresAt = slot.expiresAt
  /\ CarriesPayment(rec, PaymentLog(slot.url))
  /\ rec.callCount = 0
  /\ rec.lastUsedAt = slot.createdAt

\* The table is well formed: no id occurs twice and every record is held
\* under its own sessionId.
StoreWellFormed ==
  /\ \A i \in 1..Len(store), j \in 1..Len(store) : store[i] = store[j] => i = j
  /\ \A sid \in Range(store) : sid \in DOMAIN heap /\ heap[sid].sessionId = sid
  /\ \A p \in Procs, q \in Procs :
       (p # q /\ proc[p].pc = "start_sign" /\ proc[q].pc = "start_sign") =>
         proc[p].newId # proc[q].newId

C18_SignerRejectionLeavesStore ==
  [][\A p \in Procs :
       Leaves(p, "start_sign") =>
         /\ proc'[p].pc = "ready"
         /\ proc'[p].ext.ev \in {"signed", "signReject"}
         /\ proc'[p].ext.ev = "signReject" =>
              /\ proc'[p].res.tag = "Error"
              /\ store' = store
              /\ heap' = heap
              /\ issued' = issued
              /\ nextId' = nextId
         /\ proc'[p].ext.ev = "signed" =>
              /\ proc'[p].res.tag = "Established"
              /\ DOMAIN issued' = (DOMAIN issued) \cup proc[p].newId]_vars

\* C18 witness: a Start has failed on a rejected signature while the table
\* still holds an expired record that a sweep would have deleted.
C18_Witness ==
  \E p \in Procs :
    /\ proc[p].kind = "start"
    /\ proc[p].ext.ev = "signReject"
    /\ proc[p].res.tag = "Error"
    /\ \E sid \in Range(store) : heap[sid].expiresAt <= now

\* The slots whose x402_session_start has entered createSession (its payment
\* completed) and awaits the signer.
Signing == {p \in Procs : proc[p].pc = "start_sign"}

RecordUse(sid) ==
  /\ sid \in DOMAIN heap => heap[sid].callCount < MaxCalls
  /\ heap' = RecordSessionCall(heap, store, sid, now)
  /\ UNCHANGED <<now, env, store, nextId, proc, issued, ended>>

\* lookupSession(sessionId), called directly.
Lookup(sid) ==
  /\ LET after == AfterLookup(store, heap, sid, now)
     IN  /\ store' = after.store
         /\ heap' = Reachable(after.heap, after.store, proc)
  /\ UNCHANGED <<now, env, nextId, proc, issued, ended>>

NextStore ==
  \/ Tick
  \/ \E p \in Async, e \in Endpoints, sc \in Scopes, t \in TtlInputs :
       StartCall(p, e, sc, t, {}, {})
  \/ \E p \in Async : \E o \in Outcomes(proc[p].url) : StartFetchReturns(p, o[1], o[2])
  \/ \E p \in Async : StartSigned(p, HexSignature)
  \/ \E sid \in SessionIds : RecordUse(sid)
  \/ \E sid \in SessionIds : EndCall(sid)
  \/ StatusList
  \/ \E sid \in SessionIds : Lookup(sid)

SpecStore == Init /\ [][NextStore]_vars

\* The times at which up to MaxCalls further calls may be made, in order.
CallTimes ==
  {ts \in UNION {[1..n -> now..MaxTime] : n \in 0..MaxCalls} :
     \A i \in 1..Len(ts) - 1 : ts[i] <= ts[i + 1]}

\* The heap after recordSessionCall(sid) has been called at each of `times`.
RECURSIVE RecordUses(_, _, _, _)
RecordUses(hp, st, sid, times) ==
  IF times = <<>> THEN hp
  ELSE RecordUses(RecordSessionCall(hp, st, sid, Head(times)), st, sid, Tail(times))

\* C20: for a session in the store, N consecutive recordSessionCall calls
\* raise callCount by N (to N on a fresh record) and leave lastUsedAt at the
\* time of the last call, touching nothing else; on an id that is not in the
\* store the call changes nothing.
C20_RecordUseCounts ==
  \A sid \in SessionIds, times \in CallTimes :
    LET after == RecordUses(heap, store, sid, times)
    IN  IF InStore(sid)
        THEN /\ after[sid].callCount = heap[sid].callCount + Len(times)
             /\ after[sid].lastUsedAt =
                  (IF times = <<>> THEN heap[sid].lastUsedAt ELSE times[Len(times)])
             /\ [after EXCEPT ![sid].callCount = heap[sid].callCount,
                              ![sid].lastUsedAt = heap[sid].lastUsedAt] = heap
        ELSE after = heap

\* C20 witness: a record has received MaxCalls calls, the last of them after
\* its creation time, and carries that count and that time.
C20_Witness ==
  \E sid \in Range(store) :
    /\ heap[sid].callCount = MaxCalls
    /\ heap[sid].lastUsedAt = now
    /\ heap[sid].createdAt < now

\* C21: lookupSession is a pure read: for every id and every state of the
\* table it leaves the table and every field of every record unchanged, finds
\* exactly the ids in the table, and reports expired = (now >= expiresAt) for
\* a record it finds.
C21_LookupIsPureRead ==
  \A sid \in SessionIds :
    /\ AfterLookup(store, heap, sid, now) = [store |-> store, heap |-> heap]
    /\ LookupSession(sid).found <=> InStore(sid)
    /\ InStore(sid) =>
         (LookupSession(sid).expired <=> now >= heap[sid].expiresAt)

\* C21 witness: the table holds a record that expires at this very second
\* (reported found and expired) next to one that is still active.
C21_Witness ==
  \E a \in Range(store), b \in Range(store) :
    /\ heap[a].expiresAt = now
    /\ LookupSession(a).found /\ LookupSession(a).expired
    /\ LookupSession(b).found /\ ~LookupSession(b).expired

\* ------------------------------------------- session-authenticated requests

\* Start, Fetch and the router, with the caller choosing method, headers
\* and body of every request.
NextReq ==
  \/ Tick
  \/ \E p \in Async, e \in Endpoints, sc \in Scopes : StartCall(p, e, sc, {}, {}, {})
  \/ \E p \in Async : \E o \in Outcomes(proc[p].url) : StartFetchReturns(p, o[1], o[2])
  \/ \E p \in Async : StartSigned(p, HexSignature)
  \/ \E p \in Async, sid \in SessionIds, u \in Urls, req \in Requests :
       FetchCall(p, sid, u, req)
  \/ \E p \in Async, s \in Statuses : FetchResponse(p, s)
  \/ \E p \in Async, u \in Urls, skip \in BOOLEAN, req \in Requests :
       PayCall(p, u, skip, {}, req)
  \/ \E p \in Async, s \in Statuses : PaySessionResponse(p, s)
  \/ \E p \in Async : \E o \in Outcomes(proc[p].url) : PayFetchReturns(p, o[1], o[2])

SpecReq == Init /\ [][NextReq]_vars

\* Slot p is suspended on a request that goes out under a session.
SessionRequest(p) == proc[p].pc \in {"fetch_http", "pay_session_http"}

\* The default headers of a request: Accept, and the JSON Content-Type of a
\* POST, PUT or PATCH that has a body.
DefaultHeaders(req) ==
  IF req.body # {} /\ req.method \in {"POST", "PUT", "PATCH"}
  THEN ("Accept" :> ACCEPT_DEFAULT) @@ ("Content-Type" :> JSON_CONTENT_TYPE)
  ELSE "Accept" :> ACCEPT_DEFAULT

\* The three sources of the headers of slot p's request, lowest precedence
\* first.
HeaderSources(p) ==
  << DefaultHeaders(proc[p].req),
     BuildSessionHeaders(heap[The(proc[p].sid)]),
     proc[p].req.headers >>

\* The value the highest-precedence source that names header k gives it.
TopValue(srcs, k) ==
  LET top == CHOOSE i \in 1..3 :
               /\ k \in DOMAIN srcs[i]
               /\ \A j \in (i + 1)..3 : k \notin DOMAIN srcs[j]
  IN  srcs[top][k]

\* C22 (as stated): on both session-authenticated paths the request headers
\* are the merge of the default headers, the session headers and the
\* caller's headers, and for every name the value of the source of highest
\* precedence is sent.
C22_HeadersAreMergeByPrecedence ==
  \A p \in Procs :
    SessionRequest(p) =>
      LET srcs == HeaderSources(p)
      IN  /\ DOMAIN proc[p].headers =
               (DOMAIN srcs[1]) \cup (DOMAIN srcs[2]) \cup (DOMAIN srcs[3])
          /\ \A k \in DOMAIN proc[p].headers : proc[p].headers[k] = TopValue(srcs, k)

\* C22 (amended): the same, except that an empty Content-Type (which can only
\* come from the caller) on a POST, PUT or PATCH with a body counts as absent
\* and the default application/json is sent in its place.
C22_HeadersAreMergeUnlessEmptyContentType ==
  \A p \in Procs :
    SessionRequest(p) =>
      LET srcs == HeaderSources(p)
          req  == proc[p].req
      IN  /\ DOMAIN proc[p].headers =
               (DOMAIN srcs[1]) \cup (DOMAIN srcs[2]) \cup (DOMAIN srcs[3])
          /\ \A k \in DOMAIN proc[p].headers :
               IF /\ k = "Content-Type"
                  /\ "Content-Type" \in DOMAIN srcs[1]
                  /\ TopValue(srcs, k) = ""
               THEN proc[p].headers[k] = JSON_CONTENT_TYPE
               ELSE proc[p].headers[k] = TopValue(srcs, k)

\* C22 witness: a Fetch request in flight whose caller overrides the default
\* Accept, on a POST with a body, so that all three sources contribute.
C22_Witness ==
  \E p \in Procs :
    /\ proc[p].pc = "fetch_http"
    /\ proc[p].req.method = "POST" /\ proc[p].req.body # {}
    /\ proc[p].req.headers = ("Accept" :> "text/html")
    /\ proc[p].headers["Accept"] = "text/html"
    /\ proc[p].headers["Content-Type"] = JSON_CONTENT_TYPE
    /\ "PAYMENT-SESSION" \in DOMAIN proc[p].headers

\* C23 (as stated): every session-authenticated request carries
\* X-Session-Token equal to the session's sessionToken, X-Session-Wallet
\* equal to its walletAddress and PAYMENT-SESSION equal to its sessionId,
\* whatever the caller passes.
C23_RequestCarriesSessionHeaders ==
  \A p \in Procs :
    SessionRequest(p) =>
      LET session == heap[The(proc[p].sid)]
          sent    == proc[p].headers
      IN  /\ {"X-Session-Token", "X-Session-Wallet", "PAYMENT-SESSION"} \subseteq DOMAIN sent
          /\ sent["X-Session-Token"] = session.sessionToken
          /\ sent["X-Session-Wallet"] = session.walletAddress
          /\ sent["PAYMENT-SESSION"] = session.sessionId

\* C23 (amended): every session-authenticated request carries the three
\* session headers; each equals the session's field unless the caller
\* passes a header of that very name, whose value is then sent instead.
C23_SessionHeadersUnlessCallerOverrides ==
  \A p \in Procs :
    SessionRequest(p) =>
      LET session == heap[The(proc[p].sid)]
          sent    == proc[p].headers
          caller  == proc[p].req.headers
      IN  /\ {"X-Session-Token", "X-Session-Wallet", "PAYMENT-SESSION"} \subseteq DOMAIN sent
          /\ sent["X-Session-Token"] =
               IF "X-Session-Token" \in DOMAIN caller
               THEN caller["X-Session-Token"] ELSE session.sessionToken
          /\ sent["X-Session-Wallet"] =
               IF "X-Session-Wallet" \in DOMAIN caller
               THEN caller["X-Session-Wallet"] ELSE session.walletAddress
          /\ sent["PAYMENT-SESSION"] =
               IF "PAYMENT-SESSION" \in DOMAIN caller
               THEN caller["PAYMENT-SESSION"] ELSE session.sessionId

\* C23 witness: the router's session request in flight with a header of the
\* caller's own next to the session's token, wallet and id.
C23_Witness ==
  \E p \in Procs :
    /\ proc[p].pc = "pay_session_http"
    /\ proc[p].req.headers = ("X-Custom-Header" :> "my-value")
    /\ proc[p].headers["X-Custom-Header"] = "my-value"
    /\ proc[p].headers["X-Session-Token"] = heap[The(proc[p].sid)].sessionToken
    /\ proc[p].headers["X-Session-Wallet"] = WALLET_ADDRESS
    /\ proc[p].headers["PAYMENT-SESSION"] = The(proc[p].sid)

\* ------------------------------------------------------- session tokens

\* Start with a label and a signer that may return any of `Signatures`,
\* next to the operations that read or change the records created.
NextToken ==
  \/ Tick
  \/ \E p \in Async, e \in Endpoints, sc \in Scopes, t \in TtlInputs, l \in Labels :
       StartCall(p, e, sc, t, {}, l)
  \/ \E p \in Async : \E o \in Outcomes(proc[p].url) : StartFetchReturns(p, o[1], o[2])
  \/ \E p \in Async, sig \in Signatures : StartSigned(p, sig)
  \/ \E p \in Async : StartSignRejected(p)
  \/ \E sid \in SessionIds : StatusById(sid)
  \/ \E sid \in SessionIds : EndCall(sid)

SpecToken == Init /\ [][NextToken]_vars

\* In this step createSession, called by slot p, returns the record `sid`
\* and the record is still there to be looked at.
CreateReturns(p, sid) ==
  /\ Leaves(p, "start_sign")
  /\ proc'[p].ext.ev = "signed"
  /\ proc[p].newId = {sid}
  /\ sid \in DOMAIN heap'

\* The signed payload, as the fields of record `rec` give it.
PayloadOf(rec) ==
  [ version       |-> "clawpay/1.1",
    sessionId     |-> rec.sessionId,
    walletAddress |-> rec.walletAddress,
    endpoint      |-> rec.endpoint,
    scope         |-> rec.scope,
    createdAt     |-> rec.createdAt,
    expiresAt     |-> rec.expiresAt,
    paymentTxHash |-> rec.paymentTxHash,
    paymentAmount |-> rec.paymentAmount ]

\* Decoding the token of `rec` gives back its payload and its signature.
DecodesToOwnFields(rec) ==
  LET decoded == DecodeSessionToken(rec.sessionToken)
  IN  /\ decoded # {}
      /\ The(decoded).payload = PayloadOf(rec)
      /\ "label" \notin DOMAIN The(decoded).payload
      /\ The(decoded).signature = rec.signature

KeysOf(text) == [i \in 1..Len(text) |-> text[i].key]

\* C25: in createSession the string handed to the signer is the key-sorted
\* serialization of the payload; the part of the token before its first '.'
\* is the base64url encoding of that string, and decodes to it; the part
\* after that '.' is what the signer returned, unchanged.
C25_SignedStringIsTokenPayload ==
  [][\A p \in Procs, sid \in SessionIds :
       CreateReturns(p, sid) =>
         LET message == proc[p].message
             rec     == heap'[sid]
             token   == rec.sessionToken
             dot     == IndexOf(token, Dot)
         IN  /\ KeysOf(message) =
                  << "createdAt", "endpoint", "expiresAt", "paymentAmount",
                     "paymentTxHash", "scope", "sessionId", "version",
                     "walletAddress" >>
             /\ \A i \in 1..Len(message) :
                  ParseValue(message[i].value) = PayloadOf(rec)[message[i].key]
             /\ dot > 0
             /\ SubSeq(token, 1, dot - 1) = Base64UrlEncode(message)
             /\ Base64UrlDecode(SubSeq(token, 1, dot - 1)) = message
             /\ SubSeq(token, dot + 1, Len(token)) = proc'[p].ext.sig]_vars

\* C25 witness: createSession has returned a record whose signature has a
\* '.' inside, and the token is the encoded payload, a '.', and that
\* signature.
C25_Witness ==
  \E p \in Procs, sid \in DOMAIN heap :
    /\ proc[p].res = ResSid("Established", sid)
    /\ proc[p].ext.sig = Chars(<<"a", ".", "b">>)
    /\ heap[sid].signature = proc[p].ext.sig
    /\ heap[sid].sessionToken =
         SessionToken(Base64UrlEncode(Canonicalise(PayloadOf(heap[sid]))), heap[sid].signature)

\* The table holds no record with expiresAt <= now.
NoExpiredStored == \A sid \in Range(store) : heap[sid].expiresAt > now

\* listActiveSessions() runs in this step and deletes something.
ListPrunes == store' # store /\ proc' = proc

\* C26: listActiveSessions returns exactly the records with expiresAt > now
\* (each once, in insertion order), and when it returns the table holds no
\* record with expiresAt <= now; the table holds none either when
\* createSession returns.
C26_ListAndCreateLeaveNoExpired ==
  [][/\ LET ret == ListActiveSessions(store', heap', now')
        IN  /\ Range(ret) = {sid \in Range(store') : heap'[sid].expiresAt > now'}
            /\ ret = SelectSeq(store', LAMBDA sid : heap'[sid].expiresAt > now')
            /\ PruneExpired(store', heap', now') = ret
     /\ ListPrunes =>
          /\ NoExpiredStored'
          /\ store' = SelectSeq(store, LAMBDA sid : heap[sid].expiresAt > now)
          /\ store' = ListResult
     /\ \A p \in Procs :
          (Leaves(p, "start_sign") /\ proc'[p].ext.ev = "signed") => NoExpiredStored']_vars

\* C26 witness: a record that expired at this very second is gone from the
\* table, which still holds an active one.
C26_Witness ==
  \E gone \in DOMAIN issued, kept \in Range(store) :
    /\ gone \notin Range(store) /\ gone \notin ended
    /\ issued[gone] = now
    /\ heap[kept].expiresAt > now
    /\ NoExpiredStored

\* ------------------------------------------------- one outbound call

\* An awaited external call (HTTP request, payment client, signer) of slot p
\* returns or fails.
ExternalReturns(p) ==
  \/ \E o \in Outcomes(proc[p].url) : StartFetchReturns(p, o[1], o[2])
  \/ StartCapRejected(p, PaymentLog(proc[p].url))
  \/ \E o \in Outcomes(proc[p].url), ev \in Throws : StartFetchThrows(p, o[1], o[2], ev)
  \/ StartSigned(p, HexSignature)
  \/ StartSignRejected(p)
  \/ \E s \in Statuses : PaySessionResponse(p, s)
  \/ \E ev \in Throws : PaySessionThrows(p, ev)
  \/ \E o \in Outcomes(proc[p].url) : PayFetchReturns(p, o[1], o[2])
  \/ PayCapRejected(p, PaymentLog(proc[p].url))
  \/ \E o \in Outcomes(proc[p].url), ev \in Throws : PayFetchThrows(p, o[1], o[2], ev)

\* The calls that go out through the router: x402_pay and x402_session_start.
NextRouter ==
  \/ Tick
  \/ \E p \in Async, e \in Endpoints, sc \in Scopes, c \in Caps :
       StartCall(p, e, sc, {}, c, {})
  \/ \E p \in Async, u \in Urls, skip \in BOOLEAN, c \in Caps :
       PayCall(p, u, skip, c, PlainRequest)
  \/ \E p \in Async : ExternalReturns(p)

\* Every external call that is awaited returns or fails in the end.
SpecRouter ==
  Init /\ [][NextRouter]_vars /\ \A p \in Async : WF_vars(ExternalReturns(p))

\* Slot p has a router call in flight.
InCall(p) == proc[p].pc \in {"start_fetch", "start_sign", "pay_session_http", "pay_fetch"}

\* The terminal state a returned router call ended in.
TerminalState(slot) ==
  CASE slot.res.tag \in {"SessionUsed", "NoPayment", "NoSessionNeeded"} -> "Done-NoPay"
    [] slot.res.tag = "Paid" -> "Done-Paid"
    [] slot.res.tag = "Established" -> "Done-NewSession"
    [] slot.res.tag \in {"Timeout", "Error"} -> "Fail"
    [] OTHER -> "none"

\* Slot p's router call has returned.
CallEnded(p) ==
  /\ proc[p].pc = "ready"
  /\ proc[p].kind \in {"start", "pay"}
  /\ TerminalState(proc[p]) \in {"Done-NoPay", "Done-Paid", "Done-NewSession", "Fail"}

\* Some record's callCount or lastUsedAt changes in this step.
SomeUseRecorded ==
  \E sid \in (DOMAIN heap) \cap (DOMAIN heap') :
    heap'[sid].callCount # heap[sid].callCount

\* In this step slot p enters the payment step (the payment client is called).
EntersPay(p) ==
  /\ proc'[p].pc \in {"pay_fetch", "start_fetch"}
  /\ proc[p].pc # proc'[p].pc

\* C27: every call through the router, once each awaited external call
\* returns or fails, ends in one of Done-NoPay, Done-Paid, Done-NewSession
\* and Fail.  The payment step is entered at most once per call: from the
\* start of the call when no session was selected (none matches, or the
\* lookup is skipped, or the call is a Start), or from the session request
\* answered 402; it is left only by the end of the call or for the signer.
\* A step that records a session use ends the call with no payment made, and
\* no step of the payment path records a use.
C27_CallEndsInOneTerminalState ==
  /\ \A p \in Async : InCall(p) ~> CallEnded(p)
  /\ [][\A p \in Async :
          /\ (proc[p].pc = "ready" /\ proc'[p].pc = "ready" /\ proc'[p] # proc[p])
               => CallEnded(p)'
          /\ (InCall(p) /\ proc'[p].pc = "ready") => CallEnded(p)'
          /\ EntersPay(p) =>
               \/ /\ proc[p].pc = "ready"
                  /\ proc'[p].kind = "pay" =>
                       \E skip \in BOOLEAN, c \in Caps :
                         /\ PayCall(p, proc'[p].url, skip, c, PlainRequest)
                         /\ skip \/ FindSessionForUrl(proc'[p].url) = {}
               \/ /\ proc[p].pc = "pay_session_http"
                  /\ proc'[p].ext = Response(PAYMENT_REQUIRED)
          /\ Leaves(p, "pay_fetch") => proc'[p].pc = "ready"
          /\ Leaves(p, "start_fetch") => proc'[p].pc \in {"ready", "start_sign"}
          /\ Leaves(p, "start_sign") => proc'[p].pc = "ready"
          /\ SomeUseRecorded =>
               /\ proc[p].pc = "pay_session_http"
               /\ proc'[p].pc = "ready"
               /\ ~proc'[p].made
               /\ TerminalState(proc'[p]) = "Done-NoPay"
          /\ (Leaves(p, "pay_session_http") /\ proc'[p].pc = "pay_fetch")
               => ~SomeUseRecorded]_vars

\* C27 witness: a call whose session request was answered 402 has entered
\* the payment step, the session it tried still unused.
C27_Witness ==
  \E p \in Async, sid \in Range(store) :
    /\ proc[p].pc = "pay_fetch"
    /\ proc[p].ext = Response(PAYMENT_REQUIRED)
    /\ FindSessionForUrl(proc[p].url) = {sid}
    /\ heap[sid].callCount = 0

\* ------------------------------------------------- fetches in sequence

\* handleX402SessionFetch, called while the session has had fewer than
\* MaxCalls uses.
FetchUpTo(p, sid, url) ==
  /\ FetchHandler(p, sid, url, PlainRequest)
  /\ proc'[p].pc = "fetch_http" => heap[sid].callCount < MaxCalls

\* One session after another is started and fetched through, call after
\* call, while the clock runs and sessions are listed and ended.
NextFetch ==
  \/ Tick
  \/ \E p \in Async, sc \in Scopes, t \in TtlInputs : StartCall(p, V1, sc, t, {}, {})
  \/ \E p \in Async : \E o \in Outcomes(proc[p].url) : StartFetchReturns(p, o[1], o[2])
  \/ \E p \in Async : StartSigned(p, HexSignature)
  \/ \E p \in Async, sid \in SessionIds, u \in Urls : FetchUpTo(p, sid, u)
  \/ \E p \in Async, s \in Statuses : FetchResponse(p, s)
  \/ \E p \in Async, ev \in Throws : FetchThrows(p, ev)
  \/ StatusList
  \/ \E sid \in SessionIds : EndCall(sid)

SpecFetch == Init /\ [][NextFetch]_vars

\* In this step slot p's fetch through session `sid` returns its response
\* text (the request was answered, and not with 402).
FetchSucceeds(p, sid) ==
  /\ Leaves(p, "fetch_http")
  /\ proc[p].sid = {sid}
  /\ proc'[p].res.tag = "FetchOk"

\* C28: each successful fetch through a session that is still active reports
\* the call number one above the uses recorded so far, which is the record's
\* callCount afterwards; a record starts with callCount 0 and no step other
\* than a fetch's return moves it, so K successful fetches in a row report
\* 1, 2, ..., K.  The remaining lifetime a fetch shows is computed from the
\* record and the clock, and from one step to the next it never grows.
C28_SequentialFetchesCountUp ==
  [][/\ \A p \in Procs, sid \in SessionIds :
          FetchSucceeds(p, sid) =>
            /\ IsActive(heap, sid, now) =>
                 /\ proc'[p].res.calls = heap[sid].callCount + 1
                 /\ heap'[sid].callCount = proc'[p].res.calls
            /\ proc'[p].res.ttl = CeilDiv(heap[sid].expiresAt - now, 60)
     /\ \A sid \in DOMAIN heap' :
          IF sid \in DOMAIN heap
          THEN /\ FetchShownTtl(heap', sid, now') <= FetchShownTtl(heap, sid, now)
               /\ heap'[sid].callCount # heap[sid].callCount =>
                    \E p \in Procs : Leaves(p, "fetch_http") /\ proc[p].sid = {sid}
          ELSE heap'[sid].callCount = 0]_vars

\* C28 witness: the third successful fetch in a row through one session has
\* reported call number 3.
C28_Witness ==
  \E p \in Procs, sid \in Range(store) :
    /\ proc[p].res.tag = "FetchOk"
    /\ proc[p].res.sid = {sid}
    /\ proc[p].res.calls = 3
    /\ heap[sid].callCount = 3

\* In this step slot p's handleX402SessionFetch is called with session id
\* `sid` and runs up to its first await or its return.
FetchStartsWith(p, sid) ==
  /\ proc[p].pc = "ready"
  /\ proc'[p] # proc[p]
  /\ proc'[p].kind = "fetch"
  /\ proc'[p].sid = {sid} \/ proc'[p].res.sid = {sid}

\* C29: once x402_session_end has closed a session, every x402_session_fetch
\* called with its id afterwards returns an error (expired, or not found once
\* the record is pruned) without sending a request and without touching any
\* record, whatever happened in between.
C29_FetchAfterEndIsRefused ==
  [][\A p \in Procs, sid \in ended :
       FetchStartsWith(p, sid) =>
         /\ proc'[p].pc = "ready"
         /\ proc'[p].res.tag \in {"Expired", "NotFound"}
         /\ proc'[p].ext = NoExt
         /\ heap' = heap
         /\ store' = store]_vars

\* C29 witness: a fetch through a session that x402_session_end closed before
\* its lifetime was over has been refused as expired, the record unused.
C29_Witness ==
  \E p \in Procs, sid \in ended :
    /\ proc[p].kind = "fetch"
    /\ proc[p].res = Err(ResSid("Expired", sid))
    /\ sid \in Range(store)
    /\ issued[sid] > now
    /\ heap[sid].callCount = 0

\* ------------------------------------------------------------ failures

\* max_payment_eth: none, one wei, or a value the parse rejects.
FailCaps == {{}, {1}, InvalidCap}

\* The four session tools and x402_pay, with every failure they can meet.
NextFail ==
  \/ Tick
  \/ \E p \in Async, e \in Endpoints, sc \in Scopes, c \in FailCaps :
       StartCall(p, e, sc, {}, c, {})
  \/ \E p \in Async, u \in Urls, skip \in BOOLEAN, c \in FailCaps :
       PayCall(p, u, skip, c, PlainRequest)
  \/ \E p \in Async : ExternalReturns(p)
  \/ \E p \in Async, sid \in SessionIds, u \in Urls : FetchCall(p, sid, u, PlainRequest)
  \/ \E p \in Async, s \in Statuses : FetchResponse(p, s)
  \/ \E p \in Async, ev \in Throws : FetchThrows(p, ev)
  \/ \E sid \in SessionIds : StatusById(sid)
  \/ StatusList
  \/ \E sid \in SessionIds : EndCall(sid)

SpecFail == Init /\ [][NextFail]_vars

\* The errors a handler's try block can throw: timeout, transport error,
\* payment over the cap, signer rejection, invalid input.
ThrownKinds == {"timeout", "neterr", "capReject", "signReject", "invalid"}

\* Slot p's handler has returned a structured failure for what was thrown.
ReturnedFailure(slot) ==
  /\ slot.pc = "ready"
  /\ slot.res.isError
  /\ slot.res.tag = IF slot.ext.ev = "timeout" THEN "Timeout" ELSE "Error"

\* C30: every failure (not found, expired, scope mismatch, session rejected
\* by the server, payment over the cap, timeout, transport error, invalid
\* input, signer rejection) makes the handler that meets it return a result
\* flagged isError, never an exception; and a failed session request is not
\* sent again: a handler sends a session request only as the first request
\* of a call, a fetch returns once it is answered, and x402_pay either
\* returns or goes on to the payment client.
C30_FailuresAreReturnedNotRetried ==
  /\ [][\A p \in Procs :
          /\ (proc'[p] # proc[p] /\ proc'[p].ext.ev \in ThrownKinds)
               => ReturnedFailure(proc'[p])
          /\ (proc[p].pc = "ready" /\ proc'[p] # proc[p] /\ proc'[p].kind = "fetch"
                /\ proc'[p].pc = "ready")
               => /\ proc'[p].res.isError
                  /\ proc'[p].res.tag \in {"NotFound", "Expired", "ScopeMismatch"}
          /\ Leaves(p, "fetch_http") =>
               /\ proc'[p].pc = "ready"
               /\ proc'[p].res.tag # "none"
               /\ proc'[p].ext = Response(PAYMENT_REQUIRED) =>
                    /\ proc'[p].res.isError
                    /\ proc'[p].res.tag = "ServerRejected"
          /\ Leaves(p, "pay_session_http") =>
               /\ proc'[p].pc \in {"ready", "pay_fetch"}
               /\ proc'[p].pc = "ready" => proc'[p].res.tag # "none"
          /\ (proc'[p] # proc[p] /\ proc'[p].pc \in {"fetch_http", "pay_session_http"})
               => proc[p].pc = "ready"]_vars
  /\ [](\A sid \in SessionIds :
          ~InStore(sid) =>
            /\ StatusResult(sid).isError /\ StatusResult(sid).tag = "NotFound"
            /\ EndResult(sid).isError /\ EndResult(sid).tag = "NotFound")

\* C30 witness: x402_pay, called while the table holds a session, reached the
\* payment path with a cap that failed to parse and has returned an error
\* result.
C30_Witness ==
  \E p \in Procs :
    /\ proc[p].pc = "ready" /\ proc[p].kind = "pay"
    /\ proc[p].ext.ev = "invalid"
    /\ proc[p].res.isError /\ proc[p].res.tag = "Error"
    /\ store # <<>>

\* The names of the three session headers.
SessionHeaderNames == {"X-Session-Token", "X-Session-Wallet", "PAYMENT-SESSION"}

\* In this step slot p's x402_pay is called with skip_session_check = true.
PayCalledWithSkip(p) ==
  /\ proc[p].pc = "ready"
  /\ proc'[p] # proc[p]
  /\ proc'[p].kind = "pay"
  /\ PayCall(p, proc'[p].url, TRUE, {}, proc'[p].req)

\* C31: x402_pay called with skip_session_check = true goes straight to the
\* payment path, even when an active session covers the URL: the call is
\* bound to no session, its request carries Accept and the caller's own
\* headers and no header taken from a session record, and the step changes
\* neither the table nor any record, so that its outcome is the same
\* whatever the store holds.
C31_SkipGoesStraightToPayment ==
  [][\A p \in Procs :
       PayCalledWithSkip(p) =>
         LET req == proc'[p].req
         IN  /\ proc'[p].pc = "pay_fetch"
             /\ proc'[p].sid = {}
             /\ \A k \in SessionHeaderNames \cap DOMAIN proc'[p].headers :
                  /\ k \in DOMAIN req.headers
                  /\ proc'[p].headers[k] = req.headers[k]
             /\ DOMAIN proc'[p].headers \subseteq
                  {"Accept", "Content-Type"} \cup DOMAIN req.headers
             /\ store' = store
             /\ heap' = heap]_vars

\* C31 witness: a payment request is in flight, bound to no session and
\* without a session header, for a URL an unused active session covers.
C31_Witness ==
  \E p \in Procs, sid \in Range(store) :
    /\ proc[p].pc = "pay_fetch"
    /\ proc[p].ext = NoExt
    /\ FindSessionForUrl(proc[p].url) = {sid}
    /\ heap[sid].callCount = 0
    /\ proc[p].sid = {}
    /\ SessionHeaderNames \cap DOMAIN proc[p].headers = {}

\* The fields of a record that are fixed when it is created.
FixedFields ==
  { "sessionId", "endpoint", "scope", "walletAddress", "createdAt",
    "paymentTxHash", "paymentAmount", "paymentToken", "paymentRecipient",
    "sessionToken", "signature", "label" }

\* C32: from one step to the next a record keeps its sessionId, endpoint,
\* scope, walletAddress, createdAt, payment fields, sessionToken, signature
\* and label; a step that records a use adds one to callCount, sets
\* lastUsedAt to now and leaves expiresAt alone; a step that changes
\* expiresAt is an end of the session, sets it to 0 and leaves callCount and
\* lastUsedAt alone; expiresAt is never raised, and a record that is not
\* active does not become active.
C32_RecordFieldsAreStable ==
  [][\A sid \in (DOMAIN heap) \cap (DOMAIN heap') :
       LET old == heap[sid]
           new == heap'[sid]
       IN  /\ DOMAIN new = DOMAIN old
           /\ \A f \in FixedFields : new[f] = old[f]
           /\ new.expiresAt <= old.expiresAt
           /\ new.expiresAt # old.expiresAt =>
                /\ new.expiresAt = 0
                /\ new.callCount = old.callCount
                /\ new.lastUsedAt = old.lastUsedAt
                /\ sid \in ended'
           /\ (new.callCount # old.callCount \/ new.lastUsedAt # old.lastUsedAt) =>
                /\ new.callCount = old.callCount + 1
                /\ new.lastUsedAt = now
                /\ new.expiresAt = old.expiresAt
           /\ ~IsActive(heap, sid, now) => ~IsActive(heap', sid, now')]_vars

\* C32 witness: a record that was used and then ended: callCount 1,
\* expiresAt 0, and the identity it was created with.
C32_Witness ==
  \E sid \in Range(store) :
    /\ sid \in ended
    /\ heap[sid].expiresAt = 0
    /\ heap[sid].callCount = 1
    /\ heap[sid].sessionId = sid
    /\ heap[sid].createdAt <= heap[sid].lastUsedAt
    /\ issued[sid] > now

\* C33: for every active session S in the store and every URL U,
\* findSessionForUrl(U) returns S only if isUrlCoveredBySession(U, S) holds,
\* and when S is the only session in the store every U that
\* isUrlCoveredBySession accepts for S makes findSessionForUrl(U) return S.
C33_ScopeChecksAgree ==
  \A sid \in Range(store) : \A u \in Urls :
    IsActive(heap, sid, now) =>
      /\ FindSessionForUrl(u) = {sid} =>
           IsUrlCoveredBySession(u, heap[sid].endpoint, heap[sid].scope)
      /\ (store = <<sid>> /\ IsUrlCoveredBySession(u, heap[sid].endpoint, heap[sid].scope)) =>
           FindSessionForUrl(u) = {sid}

\* C34: once endSession(id) has returned true, no step changes the record's
\* callCount or lastUsedAt, the completion of a fetch or x402_pay call that
\* was dispatched before the end included.
C34_EndedRecordIsFrozen ==
  [][\A sid \in ended \cap (DOMAIN heap) \cap (DOMAIN heap') :
       /\ heap'[sid].callCount = heap[sid].callCount
       /\ heap'[sid].lastUsedAt = heap[sid].lastUsedAt]_vars

\* C35: when createSession returns a record, lookupSession of its sessionId
\* reports found in the state it returns in, however much time passed while
\* the signing call was awaited.
C35_CreatedRecordIsStored ==
  [][\A p \in Procs :
       (Leaves(p, "start_sign") /\ proc'[p].ext.ev = "signed") =>
         /\ proc'[p].res.sid = proc[p].newId
         /\ \A sid \in proc[p].newId : (LookupSession(sid).found)']_vars

\* ------------------------------------------------- fetches in parallel
\* Two x402_session_fetch calls in flight at once on sessions of one
\* endpoint, interleaved at their HTTP awaits, with the clock running and
\* sessions being listed and ended in between.

\* handleX402SessionFetch, called while the session's recorded uses and the
\* requests in flight on it together stay below MaxCalls.
FetchWhile(p, sid, url) ==
  /\ FetchHandler(p, sid, url, PlainRequest)
  /\ proc'[p].pc = "fetch_http" =>
       heap[sid].callCount + Cardinality(InFlightOn(sid)) < MaxCalls

\* The statuses of a response other than 402.
Answered == Statuses \ {PAYMENT_REQUIRED}

NextPar ==
  \/ Tick
  \/ \E p \in Async, t \in TtlInputs : StartCall(p, V1, "prefix", t, {}, {})
  \/ \E p \in Async : \E o \in Outcomes(proc[p].url) : StartFetchReturns(p, o[1], o[2])
  \/ \E p \in Async : StartSigned(p, HexSignature)
  \/ \E p \in Procs, sid \in SessionIds : FetchWhile(p, sid, V1)
  \/ \E p \in Procs, s \in Answered : FetchResponse(p, s)
  \/ StatusList
  \/ \E sid \in SessionIds : EndCall(sid)

SpecPar == Init /\ [][NextPar]_vars

\* Slot q holds the result of a fetch through `sid` that returned its text.
Reported(q, sid) ==
  /\ proc[q].pc = "ready"
  /\ proc[q].res.tag = "FetchOk"
  /\ proc[q].res.sid = {sid}

\* C36 (as claimed): every fetch that returns with a non-402 response, with
\* other fetches in flight on the same session and any store operations in
\* between, reports the call number one above the uses recorded so far,
\* which is the record's callCount afterwards and differs from the number
\* every other call on the session has reported.
C36_ConcurrentFetchesCountUp ==
  [][\A p \in Procs, sid \in SessionIds :
       FetchSucceeds(p, sid) =>
         /\ proc'[p].res.calls = heap[sid].callCount + 1
         /\ sid \in DOMAIN heap' => heap'[sid].callCount = proc'[p].res.calls
         /\ \A q \in Procs \ {p} :
              Reported(q, sid) => proc[q].res.calls # proc'[p].res.calls]_vars

\* C36 (amended): a fetch that returns with a non-402 response while the
\* record is still in the table reports the call number one above the uses
\* recorded so far, which is the record's callCount afterwards and is above
\* the number every other call on the session has reported; the calls still
\* in flight on the session are left pending.  A fetch that returns after
\* the record was deleted from the table records nothing and reports the
\* count the record had when it was deleted.  No other step changes a
\* callCount.
C36_StoredFetchesCountUp ==
  [][/\ \A p \in Procs, sid \in SessionIds :
          FetchSucceeds(p, sid) =>
            /\ IF sid \in Range(store)
               THEN /\ proc'[p].res.calls = heap[sid].callCount + 1
                    /\ heap'[sid].callCount = proc'[p].res.calls
                    /\ \A q \in Procs \ {p} :
                         Reported(q, sid) => proc[q].res.calls < proc'[p].res.calls
               ELSE /\ proc'[p].res.calls = heap[sid].callCount
                    /\ sid \in DOMAIN heap' => heap'[sid] = heap[sid]
            /\ \A q \in Procs \ {p} : proc'[q] = proc[q]
     /\ \A sid \in (DOMAIN heap) \cap (DOMAIN heap') :
          heap'[sid].callCount # heap[sid].callCount =>
            /\ heap'[sid].callCount = heap[sid].callCount + 1
            /\ \E p \in Procs : FetchSucceeds(p, sid)]_vars

\* C36 witness: two fetches through one session have both returned, one
\* reporting call 1 and the other call 2, and the record's callCount is 2.
C36_Witness ==
  \E sid \in Range(store), p \in Procs, q \in Procs :
    /\ Reported(p, sid) /\ proc[p].res.calls = 1
    /\ Reported(q, sid) /\ proc[q].res.calls = 2
    /\ heap[sid].callCount = 2

\* C37: a step deletes a record from the table only if the record's
\* expiresAt is at or before the clock at that step, and only as the sweep
\* of listActiveSessions or of a returning createSession; lookupSession,
\* recordSessionCall, endSession and findSessionForUrl delete nothing.  So
\* every session that has been created, has not been ended and has not
\* reached its expiry time is in the table and lookupSession finds it.
C37_ActiveRecordIsNeverRemoved ==
  [][/\ \A sid \in Range(store) \ Range(store') :
          /\ heap[sid].expiresAt <= now
          /\ ~IsActive(heap, sid, now)
          /\ \/ ListPrunes
             \/ \E p \in Procs : Leaves(p, "start_sign") /\ proc'[p].ext.ev = "signed"
     /\ \A sid \in Range(store) :
          IsActive(heap, sid, now) =>
            /\ sid \in Range(store')
            /\ sid \in Range(PruneExpired(store, heap, now))
            /\ sid \in Range(AfterLookup(store, heap, sid, now).store)
            /\ (FindSessionForUrl(heap[sid].endpoint) # {})'
                 \/ ~IsActive(heap', sid, now')
     /\ \A sid \in DOMAIN issued' :
          (sid \notin ended' /\ now' < issued'[sid]) =>
            /\ (LookupSession(sid).found)'
            /\ ~(LookupSession(sid).expired)']_vars

\* C37 witness: a sweep has deleted an ended record while the table keeps a
\* record that is still active and has had a use recorded.
C37_Witness ==
  \E gone \in ended, kept \in Range(store) :
    /\ gone \notin Range(store)
    /\ IsActive(heap, kept, now)
    /\ heap[kept].callCount = 1
    /\ LookupSession(kept).found

\* C38: at every instant and for every record in the table, these agree and
\* all equal now < expiresAt: lookupSession reports it with expired false;
\* listActiveSessions returns it; findSessionForUrl counts it among its
\* candidates (it returns no record that fails the test, returns some record
\* for the endpoint of one that passes, and returns that very record when it
\* is alone in the table); a pruneExpired sweep would keep it.
C38_ActivityNotionsAgree ==
  \A sid \in Range(store) :
    LET active == now < heap[sid].expiresAt
        lookup == LookupSession(sid)
    IN  /\ lookup.found
        /\ ~lookup.expired <=> active
        /\ sid \in Range(ListActiveSessions(store, heap, now)) <=> active
        /\ sid \in Range(PruneExpired(store, heap, now)) <=> active
        /\ IsActive(heap, sid, now) <=> active
        /\ (\E u \in Urls : FindSessionForUrl(u) = {sid}) => active
        /\ active => FindSessionForUrl(heap[sid].endpoint) # {}
        /\ store = <<sid>> => (FindSessionForUrl(heap[sid].endpoint) = {sid} <=> active)

\* C38 witness: the table holds a record whose expiresAt is exactly the
\* current second, and a record that is still active.
C38_Witness ==
  \E edge \in Range(store), live \in Range(store) :
    /\ heap[edge].expiresAt = now
    /\ edge \notin ended
    /\ LookupSession(edge).expired
    /\ edge \notin Range(ListActiveSessions(store, heap, now))
    /\ now < heap[live].expiresAt
    /\ FindSessionForUrl(heap[live].endpoint) # {}

\* C39: x402_session_start goes to the payment request whatever the table
\* holds, the table untouched, also when an active session covers the
\* endpoint; when the payment was made and the signer returns, the record
\* it adds has an id no record ever had, starts with no use recorded, and
\* every record that is active at that moment stays in the table with every
\* field unchanged.
C39_StartIgnoresExistingSessions ==
  [][\A p \in Procs :
       /\ (proc[p].pc = "ready" /\ proc'[p] # proc[p] /\ proc'[p].kind = "start") =>
            /\ proc'[p].pc = "start_fetch"
            /\ proc'[p].sid = {}
            /\ store' = store
            /\ heap' = heap
       /\ (Leaves(p, "start_sign") /\ proc'[p].ext.ev = "signed") =>
            LET sid == The(proc[p].newId)
            IN  /\ proc[p].made
                /\ sid \notin DOMAIN issued
                /\ sid \notin DOMAIN heap
                /\ proc'[p].res.sid = {sid}
                /\ now < proc[p].expiresAt =>
                     /\ store' = Append(PruneExpired(store, heap, now), sid)
                     /\ heap'[sid].sessionId = sid
                     /\ heap'[sid].endpoint = proc[p].url
                     /\ heap'[sid].callCount = 0
                /\ \A o \in Range(store) :
                     IsActive(heap, o, now) =>
                       /\ o \in Range(store')
                       /\ heap'[o] = heap[o]]_vars

\* C39 witness: a second x402_session_start on an endpoint that an active,
\* already used session covers has paid and added its own record: the table
\* holds two active records for the endpoint under different ids, the older
\* one with its recorded use.
C39_Witness ==
  \E a \in Range(store), b \in Range(store) :
    /\ a # b
    /\ heap[a].endpoint = heap[b].endpoint
    /\ IsActive(heap, a, now) /\ IsActive(heap, b, now)
    /\ heap[a].callCount = 1 /\ heap[b].callCount = 0
    /\ heap[a].createdAt < heap[b].createdAt
    /\ \E p \in Procs : proc[p].res = ResSid("Established", b)

====
